---- MODULE Spec2Model ----
(***************************************************************************)
(* Verification model of the promostandards-js request/response and        *)
(* endpoint-resolution core: WSDLProvider (core/wsdl-provider.js),         *)
(* BaseService (core/base-service.js), PromoStandardsAuth (core/auth.js),  *)
(* SoapClient (core/soap-client.js), XmlConverter                          *)
(* (core/xml-converter.js) and OneSourceClient                             *)
(* (core/onesource-client.js).                                             *)
(*                                                                         *)
(* Specifications:                                                         *)
(*   Spec         WSDLProvider.resolve/_doResolve with concurrent callers. *)
(*   SpecService  BaseService.ensureWsdlResolved on top of the provider.   *)
(*   SpecCall     one BaseService.call: ensureWsdlResolved, injectAuth,    *)
(*                SoapClient.call, the transport, response parsing,        *)
(*                validation and error handling.                           *)
(*   SpecCache    BaseService.call on a service with a cache: lookups,     *)
(*                expiry, stores, and a cache that fails.                  *)
(*   SpecDiscovery  the reads of OneSourceClient over its timed cache.     *)
(*   SpecFunctions  pure functions and constructors applied to one input.  *)
(*   SpecClient   PromoStandardsClient: services requested one after the   *)
(*                other, each with its own options.                        *)
(*   SpecInit     overlapping invocations on one service before its SOAP   *)
(*                client exists.                                           *)
(*   SpecAuth     one PromoStandardsAuth object, constructed and updated.  *)
(***************************************************************************)
EXTENDS Integers, Sequences, FiniteSets, TLC

\* ------------------------------------------------------------------------
\* Bounds of the model
\* ------------------------------------------------------------------------
MaxCallers == 3        \* resolve() calls on the provider (Spec)
MaxAttempts == 2       \* _doResolve invocations
MaxEnsureCalls == 2    \* ensureWsdlResolved() calls on the service (SpecService)
MaxCachedCalls == 3    \* call() invocations on the cached service (SpecCache)
MaxTime == 3           \* ticks of the clock (SpecCache)
MaxTTL == 2            \* largest cacheTTL, in ticks (SpecCache, SpecDiscovery)
MaxListed == 3         \* services in an endpoint list (SpecFunctions)
MaxReads == 2          \* reads made on the discovery client (SpecDiscovery)

\* JavaScript null / undefined / absent option (every falsy value the code
\* tests with `!x` or `x || y`).
NULL == "NULL"

Truthy(v) == v # NULL

\* a || b on strings
Or(a, b) == IF Truthy(a) THEN a ELSE b

VARIABLES
  \* ---- WSDLProvider fields (constructor, wsdl-provider.js) ----
  provCfg,            \* staticWsdl, customResolver, onesource, supplierId, serviceName, version
  resolvedWsdl,       \* this._resolvedWsdl
  resolvedEndpoint,   \* this._resolvedEndpoint
  resolvedVersion,    \* this._resolvedVersion
  resolving,          \* this._resolving: 0 = null, p = the promise of attempt p
  promises,           \* the promises returned by _doResolve, one per attempt
  nAttempts,          \* number of _doResolve invocations so far
  upstreamCalls,      \* invocations of customResolver / onesource.getServiceEndpoint
  callers,            \* the resolve() / ensureWsdlResolved() invocations
  \* ---- BaseService fields (constructor, base-service.js) ----
  svcOpts,            \* options given to the constructor + static defaultVersion
  svcVersion,         \* this.version
  svcWsdl,            \* this.wsdl
  svcEndpoint,        \* this.endpoint
  svcClient,          \* this.client !== null
  authWsVersion,      \* this.auth.wsVersion
  \* ---- PromoStandardsAuth fields, SoapClient and one BaseService.call ----
  authCreds,          \* this.auth.id, .password, .includePassword
  soapClientReady,    \* this.client._client !== null
  call,               \* the call(): position, arguments, request data, outcome
  \* ---- BaseService with a cache collaborator ----
  cacheOn,            \* this.cache !== null
  cacheTTL,           \* this.cacheTTL
  cacheStore,         \* the entries of the collaborator: {[key, value]}
  now,                \* Date.now()
  ccall,              \* the current call() of the cached service
  \* ---- OneSourceClient ----
  osTTL,              \* this.cacheTTL
  osStore,            \* this.cache: the entries {[key, data, timestamp]}
  osCall,             \* the current read: position, arguments, requests made, outcome
  \* ---- functions applied to one input ----
  fnIn,               \* the function and its arguments
  fnOut,              \* what it returned or threw
  \* ---- PromoStandardsClient ----
  clAuth,             \* this.auth: the client-level auth object, or null
  clServices,         \* this.services: the entries {[key, auth]}
  clCall,             \* the last client.inventory(wsdl, options): arguments, outcome
  \* ---- one service used by concurrent call() / initialize() ----
  inLazy,             \* the service was built on a wsdlProvider
  inClient,           \* SoapClient objects made for this.client so far (0: this.client is null)
  inReady,            \* the SoapClient objects whose _client is set
  inCallers,          \* per invocation: position, the SoapClient it initializes
  \* ---- one PromoStandardsAuth object ----
  authState,               \* its id, password and wsVersion (null before construction)
  authCall            \* the last construction or updateCredentials: argument, outcome

provVars == <<provCfg, resolvedWsdl, resolvedEndpoint, resolvedVersion,
              resolving, promises, nAttempts, upstreamCalls, callers>>
svcVars == <<svcOpts, svcVersion, svcWsdl, svcEndpoint, svcClient, authWsVersion>>
provVars_less_callers == <<provCfg, resolvedWsdl, resolvedEndpoint, resolvedVersion,
                          resolving, promises, nAttempts, upstreamCalls>>
callVars == <<authCreds, soapClientReady, call>>
cacheVars == <<cacheOn, cacheTTL, cacheStore, now, ccall>>
osVars == <<osTTL, osStore, osCall>>
fnVars == <<fnIn, fnOut>>
clientVars == <<clAuth, clServices, clCall>>
initVars == <<inLazy, inClient, inReady, inCallers>>
authVars == <<authState, authCall>>
moreVars == <<clientVars, initVars, authVars>>
laterVars == <<cacheVars, osVars, fnVars, moreVars>>
otherThanDiscovery == <<provVars, svcVars, callVars, cacheOn, cacheTTL, cacheStore, ccall, fnVars, moreVars>>
vars == <<provVars, svcVars, callVars, laterVars>>

\* ------------------------------------------------------------------------
\* Values
\* ------------------------------------------------------------------------
Wsdls == {"w1"}
Endpoints == {"e1"}
Versions == {"1.2.1", "2.0.0"}

\* What the upstream (custom resolver / OneSource getServiceEndpoint) can
\* hand back: any of the three fields may be missing
\* (onesource-client.js builds wsdl from ServiceUrl || wsdl || ... which is
\* undefined when the directory entry has none of them).
Descriptors ==
  [wsdl : Wsdls \cup {NULL}, endpoint : Endpoints \cup {NULL}, version : Versions \cup {NULL}]

NoDescriptor == [wsdl |-> NULL, endpoint |-> NULL, version |-> NULL]

\* Errors: code as in errors.js, msg identifies the throw site, id the
\* attempt whose error object it is (error identity).
UpstreamErrorCodes == {"NETWORK_ERROR", "VALIDATION_ERROR"}
NoError == [code |-> NULL, msg |-> NULL, id |-> 0]
ConfigError(p) == [code |-> "VALIDATION_ERROR", msg |-> "Cannot resolve WSDL", id |-> p]
UpstreamError(c, p) == [code |-> c, msg |-> "upstream", id |-> p]
NoProviderError == [code |-> "VALIDATION_ERROR", msg |-> "No WSDL or wsdlProvider configured", id |-> 0]

\* Outcome of a promise: fulfilled with a descriptor or rejected with an error
Fulfilled(d) == [ok |-> TRUE, desc |-> d, err |-> NoError]
Rejected(e) == [ok |-> FALSE, desc |-> NoDescriptor, err |-> e]
NoOutcome == [ok |-> FALSE, desc |-> NoDescriptor, err |-> NoError]

\* ------------------------------------------------------------------------
\* WSDLProvider
\* ------------------------------------------------------------------------
\* The configurations a WSDLProvider can be constructed with
\* (new WSDLProvider(options), fromWsdl, fromSupplier, fromResolver).
ProviderConfigs ==
  { c \in [staticWsdl : {NULL, "w0"}, customResolver : BOOLEAN, onesource : BOOLEAN,
           supplierId : {NULL, "sup"}, serviceName : {NULL, "inventory"},
           version : {NULL, "1.2.1"}] :
      \* a static provider is built by fromWsdl: nothing else is set
      /\ (c.staticWsdl # NULL => ~c.customResolver /\ ~c.onesource /\ c.supplierId = NULL
                                   /\ c.serviceName = NULL /\ c.version = NULL)
      \* fromResolver sets only the resolver; fromSupplier never sets it
      /\ (c.customResolver => ~c.onesource /\ c.supplierId = NULL /\ c.serviceName = NULL)
      \* a version is only passed along with a resolution strategy
      /\ (c.version # NULL => c.customResolver
                                \/ (c.onesource /\ c.supplierId # NULL /\ c.serviceName # NULL)) }

isStatic == Truthy(provCfg.staticWsdl)
isResolved == Truthy(resolvedWsdl)
getWsdl == Or(resolvedWsdl, provCfg.staticWsdl)
getEndpoint == resolvedEndpoint
getVersion == Or(resolvedVersion, provCfg.version)

\* (variant of UsesOneSource that forgets to require the supplier id)
UsesOneSource_NoSupplierCheck(cfg) == cfg.onesource /\ Truthy(cfg.serviceName)

\* The condition of the OneSource branch of _doResolve
UsesOneSource(cfg) == cfg.onesource /\ Truthy(cfg.supplierId) /\ Truthy(cfg.serviceName)
\* _doResolve reaches an upstream call (either branch)
HasUpstream(cfg) == cfg.customResolver \/ UsesOneSource(cfg)

NoPromise == [state |-> "none", out |-> NoOutcome, leaderRan |-> FALSE]

InitProvider ==
  /\ provCfg \in ProviderConfigs
  /\ resolvedWsdl = NULL
  /\ resolvedEndpoint = NULL
  /\ resolvedVersion = NULL
  /\ resolving = 0
  /\ promises = [p \in 1..MaxAttempts |-> NoPromise]
  /\ nAttempts = 0
  /\ upstreamCalls = 0
  /\ callers = [c \in 1..(IF MaxCallers > MaxEnsureCalls THEN MaxCallers ELSE MaxEnsureCalls) |->
                  [pc |-> "idle", kind |-> "none", p |-> 0, out |-> NoOutcome]]

\* ------------------------------------------------------------------------
\* BaseService: constructor
\* ------------------------------------------------------------------------
\* static supportedVersions of the service class (inventory-service.js)
supportedVersions == {"1.2.1", "2.0.0"}

\* Options of new ServiceClass(options), with the class's static
\* defaultVersion (undefined for a bare BaseService).  auth is either a
\* PromoStandardsAuth instance shared with the client (authInstance, with
\* the wsVersion it was built with) or built by createAuth from the id /
\* password options.
ServiceOptions ==
  { o \in [wsdl : {NULL, "ws"}, wsdlProvider : BOOLEAN, version : {NULL, "1.2.1"},
           defaultVersion : {NULL, "2.0.0"}, endpoint : {NULL, "e0"},
           authInstance : BOOLEAN, authVersion : {NULL, "1.2.1"}] :
      /\ (~o.authInstance => o.authVersion = NULL)
      \* an explicit endpoint is given by hand-built services only
      /\ (o.authInstance <=> o.endpoint = NULL)
      \* a service built on a static WSDL is constructed by
      \* client._createDirectService with the client's shared auth
      /\ (Truthy(o.wsdl) => ~o.wsdlProvider /\ o.authInstance /\ o.version = NULL
                              /\ o.authVersion = NULL /\ o.defaultVersion # NULL) }

\* BaseService.validateOptions: TRUE when it does not throw
ValidateOptionsOk(o) ==
  /\ (Truthy(o.wsdl) \/ o.wsdlProvider)
  /\ ((Truthy(o.version) /\ supportedVersions # {} /\ ~o.wsdlProvider)
        => o.version \in supportedVersions)

\* this.version = options.version || this.constructor.defaultVersion
CtorVersion(o) == Or(o.version, o.defaultVersion)

\* BaseService.createAuth: the wsVersion of the resulting auth object
CreateAuthWsVersion(o) ==
  IF o.authInstance THEN o.authVersion ELSE Or(o.version, CtorVersion(o))

InitService ==
  /\ svcOpts \in {o \in ServiceOptions : ValidateOptionsOk(o)}
  /\ svcVersion = CtorVersion(svcOpts)
  /\ svcWsdl = svcOpts.wsdl
  /\ svcEndpoint = svcOpts.endpoint
  /\ svcClient = Truthy(svcOpts.wsdl)
  /\ authWsVersion = CreateAuthWsVersion(svcOpts)

\* ------------------------------------------------------------------------
\* WSDLProvider.resolve / _doResolve
\* ------------------------------------------------------------------------
Settled(p) == promises[p].state \in {"fulfilled", "rejected"}

\* (variant of ResolutionInFlight that never joins the pending promise)
ResolutionInFlight_NeverJoins == FALSE

\* `if (this._resolving)` of resolve()
ResolutionInFlight == resolving # 0

\* the descriptor resolve() rebuilds from the cache
CachedDescriptor ==
  [wsdl |-> resolvedWsdl, endpoint |-> resolvedEndpoint, version |-> resolvedVersion]

\* the promise a finished resolve()/ensureWsdlResolved() call hands to its
\* caller: a bare resolve() is done, ensureWsdlResolved() still has to run
\* its continuation
AfterResolve(kind) == IF kind = "ensure" THEN "settled" ELSE "done"

\* resolve(), synchronous part up to its first await (or to its return)
ResolveCall(c, kind) ==
  IF Truthy(resolvedWsdl) THEN
    \* Return cached result
    /\ callers' = [callers EXCEPT ![c] =
         [pc |-> AfterResolve(kind), kind |-> kind, p |-> resolving,
          out |-> Fulfilled(CachedDescriptor)]]
    /\ UNCHANGED <<resolvedWsdl, resolvedEndpoint, resolvedVersion, resolving,
                   promises, nAttempts, upstreamCalls>>
  ELSE IF Truthy(provCfg.staticWsdl) THEN
    \* Static WSDL - no resolution needed
    /\ resolvedWsdl' = provCfg.staticWsdl
    /\ callers' = [callers EXCEPT ![c] =
         [pc |-> AfterResolve(kind), kind |-> kind, p |-> resolving,
          out |-> Fulfilled([wsdl |-> provCfg.staticWsdl, endpoint |-> NULL,
                             version |-> NULL])]]
    /\ UNCHANGED <<resolvedEndpoint, resolvedVersion, resolving,
                   promises, nAttempts, upstreamCalls>>
  ELSE IF ResolutionInFlight THEN
    \* return this._resolving
    /\ callers' = [callers EXCEPT ![c] =
         [pc |-> "follower", kind |-> kind, p |-> resolving, out |-> NoOutcome]]
    /\ UNCHANGED <<resolvedWsdl, resolvedEndpoint, resolvedVersion, resolving,
                   promises, nAttempts, upstreamCalls>>
  ELSE
    \* this._resolving = this._doResolve(); _doResolve runs up to its await
    /\ nAttempts < MaxAttempts
    /\ nAttempts' = nAttempts + 1
    /\ resolving' = nAttempts + 1
    /\ IF HasUpstream(provCfg)
         THEN /\ upstreamCalls' = upstreamCalls + 1
              /\ promises' = [promises EXCEPT ![nAttempts + 1] =
                   [state |-> "pending", out |-> NoOutcome, leaderRan |-> FALSE]]
         ELSE /\ upstreamCalls' = upstreamCalls
              /\ promises' = [promises EXCEPT ![nAttempts + 1] =
                   [state |-> "rejected", out |-> Rejected(ConfigError(nAttempts + 1)),
                    leaderRan |-> FALSE]]
    /\ callers' = [callers EXCEPT ![c] =
         [pc |-> "leader", kind |-> kind, p |-> nAttempts + 1, out |-> NoOutcome]]
    /\ UNCHANGED <<resolvedWsdl, resolvedEndpoint, resolvedVersion>>

\* callers are numbered in the order in which they call
MayCall(c) ==
  /\ callers[c].pc = "idle"
  /\ IF c = 1 THEN TRUE ELSE callers[c - 1].pc # "idle"

\* provider.resolve() called directly
Resolve(c) ==
  /\ MayCall(c)
  /\ ResolveCall(c, "resolve")
  /\ UNCHANGED <<provCfg, svcVars>>

\* _doResolve after its await: the upstream answered with descriptor d
UpstreamSucceeds(p, d) ==
  /\ promises[p].state = "pending"
  /\ resolvedWsdl' = d.wsdl
  /\ resolvedEndpoint' = d.endpoint
  /\ resolvedVersion' = d.version
  /\ promises' = [promises EXCEPT ![p] =
       [state |-> "fulfilled", out |-> Fulfilled(d), leaderRan |-> FALSE]]
  /\ UNCHANGED <<provCfg, resolving, nAttempts, upstreamCalls, callers, svcVars>>

\* _doResolve after its await: the upstream threw
UpstreamFails(p, code) ==
  /\ promises[p].state = "pending"
  /\ promises' = [promises EXCEPT ![p] =
       [state |-> "rejected", out |-> Rejected(UpstreamError(code, p)),
        leaderRan |-> FALSE]]
  /\ UNCHANGED <<provCfg, resolvedWsdl, resolvedEndpoint, resolvedVersion,
                 resolving, nAttempts, upstreamCalls, callers, svcVars>>

\* (variant of LeaderContinues without the finally block: the slot keeps
\* the settled promise)
LeaderContinues_KeepsSlot(c) ==
  /\ callers[c].pc = "leader"
  /\ Settled(callers[c].p)
  /\ resolving' = resolving
  /\ promises' = [promises EXCEPT ![callers[c].p].leaderRan = TRUE]
  /\ callers' = [callers EXCEPT ![c].pc = AfterResolve(callers[c].kind),
                                ![c].out = promises[callers[c].p].out]
  /\ UNCHANGED <<provCfg, resolvedWsdl, resolvedEndpoint, resolvedVersion,
                 nAttempts, upstreamCalls, svcVars>>

\* resolve() of the caller that started attempt p, after `await
\* this._resolving`: finally { this._resolving = null }, then return/throw
LeaderContinues(c) ==
  /\ callers[c].pc = "leader"
  /\ Settled(callers[c].p)
  /\ resolving' = 0
  /\ promises' = [promises EXCEPT ![callers[c].p].leaderRan = TRUE]
  /\ callers' = [callers EXCEPT ![c].pc = AfterResolve(callers[c].kind),
                                ![c].out = promises[callers[c].p].out]
  /\ UNCHANGED <<provCfg, resolvedWsdl, resolvedEndpoint, resolvedVersion,
                 nAttempts, upstreamCalls, svcVars>>

\* resolve() of a caller that returned the in-flight promise: its own
\* promise adopts that promise's outcome.  The leader's await reaction is
\* registered on the promise before any follower's, so it runs first.
FollowerSettles(c) ==
  /\ callers[c].pc = "follower"
  /\ Settled(callers[c].p)
  /\ promises[callers[c].p].leaderRan
  /\ callers' = [callers EXCEPT ![c].pc = AfterResolve(callers[c].kind),
                                ![c].out = promises[callers[c].p].out]
  /\ UNCHANGED <<provCfg, resolvedWsdl, resolvedEndpoint, resolvedVersion,
                 resolving, promises, nAttempts, upstreamCalls, svcVars>>

\* ------------------------------------------------------------------------
\* BaseService.ensureWsdlResolved
\* ------------------------------------------------------------------------
\* ensureWsdlResolved() up to `await this.wsdlProvider.resolve()`
EnsureWsdlResolved(c) ==
  /\ MayCall(c)
  /\ IF svcClient THEN
       \* Already have a client - nothing to do
       /\ callers' = [callers EXCEPT ![c] =
            [pc |-> "done", kind |-> "ensure", p |-> 0, out |-> Fulfilled(NoDescriptor)]]
       /\ UNCHANGED <<resolvedWsdl, resolvedEndpoint, resolvedVersion, resolving,
                      promises, nAttempts, upstreamCalls>>
     ELSE IF ~svcOpts.wsdlProvider THEN
       /\ callers' = [callers EXCEPT ![c] =
            [pc |-> "done", kind |-> "ensure", p |-> 0, out |-> Rejected(NoProviderError)]]
       /\ UNCHANGED <<resolvedWsdl, resolvedEndpoint, resolvedVersion, resolving,
                      promises, nAttempts, upstreamCalls>>
     ELSE ResolveCall(c, "ensure")
  /\ UNCHANGED <<provCfg, svcVars>>

\* `if (resolved.version && !this.version)`
AdoptsResolvedVersion(resolved) == Truthy(resolved.version) /\ ~Truthy(svcVersion)

\* ensureWsdlResolved() after the await
EnsureContinues(c) ==
  /\ callers[c].pc = "settled"
  /\ callers[c].kind = "ensure"
  /\ callers' = [callers EXCEPT ![c].pc = "done"]
  /\ IF callers[c].out.ok
       THEN LET resolved == callers[c].out.desc IN
            /\ svcWsdl' = resolved.wsdl
            /\ svcEndpoint' = Or(resolved.endpoint, svcEndpoint)
            /\ IF AdoptsResolvedVersion(resolved)
                 THEN /\ svcVersion' = resolved.version
                      /\ authWsVersion' = resolved.version
                 ELSE UNCHANGED <<svcVersion, authWsVersion>>
            /\ svcClient' = TRUE
       ELSE UNCHANGED <<svcVersion, svcWsdl, svcEndpoint, svcClient, authWsVersion>>
  /\ UNCHANGED <<provVars_less_callers, svcOpts>>

\* ========================================================================
\* JSON values (the NormalizedNode of the codec) and strings
\* ========================================================================
\* Strings that the code inspects character by character (XML names, text
\* content, object keys) are sequences of one-character strings.
UpperChars == <<"A", "B", "C", "D", "E", "F", "G", "H", "I", "J", "K", "L", "M", "N", "O", "P", "Q", "R", "S", "T", "U", "V", "W", "X", "Y", "Z">>
LowerChars == <<"a", "b", "c", "d", "e", "f", "g", "h", "i", "j", "k", "l", "m", "n", "o", "p", "q", "r", "s", "t", "u", "v", "w", "x", "y", "z">>
DigitChars == <<"0", "1", "2", "3", "4", "5", "6", "7", "8", "9">>

UpperSet == {UpperChars[i] : i \in 1..Len(UpperChars)}
LowerSet == {LowerChars[i] : i \in 1..Len(LowerChars)}
DigitSet == {DigitChars[i] : i \in 1..Len(DigitChars)}

\* String.prototype.toLowerCase / toUpperCase as maps on letters
ToLower == [ch \in UpperSet |-> LowerChars[CHOOSE i \in 1..Len(UpperChars) : UpperChars[i] = ch]]
ToUpper == [ch \in LowerSet |-> UpperChars[CHOOSE i \in 1..Len(LowerChars) : LowerChars[i] = ch]]
DigitValue == [ch \in DigitSet |-> (CHOOSE i \in 1..Len(DigitChars) : DigitChars[i] = ch) - 1]

LowerOf(ch) == IF ch \in UpperSet THEN ToLower[ch] ELSE ch
UpperOf(ch) == IF ch \in LowerSet THEN ToUpper[ch] ELSE ch

toLowerCase(s) == [i \in 1..Len(s) |-> LowerOf(s[i])]

\* String.prototype.includes
includes(s, sub) ==
  \E i \in 1..(Len(s) - Len(sub) + 1) : SubSeq(s, i, i + Len(sub) - 1) = sub

\* String.prototype.startsWith
startsWith(s, pre) == Len(s) >= Len(pre) /\ SubSeq(s, 1, Len(pre)) = pre

JNull == [t |-> "null"]
JUndef == [t |-> "undef"]
JStr(s) == [t |-> "str", s |-> s]
JBool(b) == [t |-> "bool", b |-> b]
JNum(n) == [t |-> "num", n |-> n]
JObj(kv) == [t |-> "obj", kv |-> kv]        \* kv: sequence of [k, v], insertion order
JArr(items) == [t |-> "arr", items |-> items]

\* JavaScript truthiness of a value
JTruthy(v) ==
  CASE v.t = "null" -> FALSE
    [] v.t = "undef" -> FALSE
    [] v.t = "str" -> v.s # <<>>
    [] v.t = "bool" -> v.b
    [] v.t = "num" -> v.n # 0
    [] OTHER -> TRUE

\* a || b on values
JOr(a, b) == IF JTruthy(a) THEN a ELSE b

\* Object.keys(obj)
Keys(obj) == [i \in 1..Len(obj.kv) |-> obj.kv[i].k]

\* obj[k] (undefined when the key is absent)
Get(obj, k) ==
  IF obj.t = "obj" /\ \E i \in 1..Len(obj.kv) : obj.kv[i].k = k
    THEN obj.kv[CHOOSE i \in 1..Len(obj.kv) : obj.kv[i].k = k].v
    ELSE JUndef

\* obj[k] = v on the entry list: an existing key keeps its position
Put(kv, k, v) ==
  IF \E i \in 1..Len(kv) : kv[i].k = k
    THEN [i \in 1..Len(kv) |-> IF kv[i].k = k THEN [k |-> k, v |-> v] ELSE kv[i]]
    ELSE Append(kv, [k |-> k, v |-> v])

\* the entries of more assigned one after the other over kv, as the
\* spread { ...a, ...b } and a loop of obj[k] = v do
RECURSIVE SpreadInto(_, _)
SpreadInto(kv, more) ==
  IF more = <<>> THEN kv
  ELSE SpreadInto(Put(kv, more[1].k, more[1].v), Tail(more))

\* ------------------------------------------------------------------------
\* lodash camelCase (XmlConverter.normalizeKey), for ASCII names
\* ------------------------------------------------------------------------
\* last index of the run of characters of class that starts at i
RECURSIVE RunEnd(_, _, _)
RunEnd(s, i, class) == IF i < Len(s) /\ s[i + 1] \in class THEN RunEnd(s, i + 1, class) ELSE i

\* lodash words(): an optional capital followed by lower-case letters; a
\* run of capitals (without its last one when a lower-case letter follows);
\* a run of digits; every other character separates words
RECURSIVE WordsFrom(_, _)
WordsFrom(s, i) ==
  IF i > Len(s) THEN <<>>
  ELSE IF s[i] \in LowerSet THEN
    LET e == RunEnd(s, i, LowerSet) IN <<SubSeq(s, i, e)>> \o WordsFrom(s, e + 1)
  ELSE IF s[i] \in UpperSet /\ i < Len(s) /\ s[i + 1] \in LowerSet THEN
    LET e == RunEnd(s, i + 1, LowerSet) IN <<SubSeq(s, i, e)>> \o WordsFrom(s, e + 1)
  ELSE IF s[i] \in UpperSet THEN
    LET e == RunEnd(s, i, UpperSet)
        last == IF e < Len(s) /\ s[e + 1] \in LowerSet THEN e - 1 ELSE e
    IN <<SubSeq(s, i, last)>> \o WordsFrom(s, last + 1)
  ELSE IF s[i] \in DigitSet THEN
    LET e == RunEnd(s, i, DigitSet) IN <<SubSeq(s, i, e)>> \o WordsFrom(s, e + 1)
  ELSE WordsFrom(s, i + 1)

\* upperFirst(word.toLowerCase())
Capitalize(w) == [i \in 1..Len(w) |-> IF i = 1 THEN UpperOf(w[i]) ELSE LowerOf(w[i])]

RECURSIVE JoinCamel(_, _)
JoinCamel(ws, first) ==
  IF ws = <<>> THEN <<>>
  ELSE (IF first THEN toLowerCase(ws[1]) ELSE Capitalize(ws[1])) \o JoinCamel(Tail(ws), FALSE)

camelCase(s) == JoinCamel(WordsFrom(s, 1), TRUE)

\* XmlConverter.normalizeKey
normalizeKey(key) == camelCase(key)

\* ------------------------------------------------------------------------
\* XML documents and xml2js parsing as configured by XmlConverter
\* (explicitArray: false, mergeAttrs: true, tagNameProcessors: [stripPrefix])
\* ------------------------------------------------------------------------
\* An element: name, attributes (sequence of [k, v] with v a string), child
\* elements, and text content (used when there are no children)
Elem(name, attrs, kids, text) == [name |-> name, attrs |-> attrs, kids |-> kids, text |-> text]
Leaf(name, text) == Elem(name, <<>>, <<>>, text)

\* xml2js processors.stripPrefix: str.replace(/(?!xmlns)^.*:/, '')
stripPrefix(name) ==
  IF startsWith(name, <<"x", "m", "l", "n", "s">>) THEN name
  ELSE IF \E i \in 1..Len(name) : name[i] = ":"
    THEN LET last == CHOOSE i \in 1..Len(name) :
                       name[i] = ":" /\ \A j \in (i + 1)..Len(name) : name[j] # ":"
         IN SubSeq(name, last + 1, Len(name))
  ELSE name

\* the tag name after the parser's tagNameProcessors
TagName(name, strip) == IF strip THEN stripPrefix(name) ELSE name

\* xml2js: obj[key] = value, or turn the entry into / extend an array when
\* the key is already present (explicitArray: false)
AssignOrPush(kv, k, v) ==
  IF \E i \in 1..Len(kv) : kv[i].k = k
    THEN [i \in 1..Len(kv) |->
            IF kv[i].k = k
              THEN [k |-> k,
                    v |-> IF kv[i].v.t = "arr" THEN JArr(Append(kv[i].v.items, v))
                          ELSE JArr(<<kv[i].v, v>>)]
              ELSE kv[i]]
    ELSE Append(kv, [k |-> k, v |-> v])

\* AssignOrPush for each entry in turn
RECURSIVE AssignAll(_, _)
AssignAll(kv, entries) ==
  IF entries = <<>> THEN kv
  ELSE AssignAll(AssignOrPush(kv, entries[1].k, entries[1].v), Tail(entries))

\* the value xml2js builds for an element: its text when it has neither
\* attributes nor children ('' for an empty element), otherwise an object
\* of its attributes and children (text beside attributes goes under '_')
RECURSIVE ParseElement(_, _)
ParseElement(e, strip) ==
  IF e.attrs = <<>> /\ e.kids = <<>> THEN JStr(e.text)
  ELSE LET attrs == [i \in 1..Len(e.attrs) |-> [k |-> e.attrs[i].k, v |-> JStr(e.attrs[i].v)]]
           text == IF e.kids = <<>> /\ e.text # <<>>
                     THEN <<[k |-> <<"_">>, v |-> JStr(e.text)]>> ELSE <<>>
           kids == [i \in 1..Len(e.kids) |->
                      [k |-> TagName(e.kids[i].name, strip), v |-> ParseElement(e.kids[i], strip)]]
       IN JObj(AssignAll(<<>>, attrs \o text \o kids))

\* parser.parseStringPromise(xml): { rootName: value }
ParseDocument(doc, strip) ==
  JObj(<<[k |-> TagName(doc.root.name, strip), v |-> ParseElement(doc.root, strip)]>>)

\* ------------------------------------------------------------------------
\* XmlConverter.normalizeJsonResponse
\* ------------------------------------------------------------------------
RECURSIVE DigitsValue(_)
DigitsValue(s) ==
  IF s = <<>> THEN 0
  ELSE 10 * DigitsValue(SubSeq(s, 1, Len(s) - 1))
       + DigitValue[s[Len(s)]]

\* the text without leading and trailing blanks (Number() ignores them)
Trimmed(s) ==
  IF \A i \in 1..Len(s) : s[i] = " " THEN <<>>
  ELSE LET a == CHOOSE i \in 1..Len(s) : s[i] # " " /\ \A j \in 1..(i - 1) : s[j] = " "
           b == CHOOSE i \in 1..Len(s) : s[i] # " " /\ \A j \in (i + 1)..Len(s) : s[j] = " "
       IN SubSeq(s, a, b)

\* the digits of an optionally signed decimal integer literal
Unsigned(s) == IF s # <<>> /\ s[1] \in {"-", "+"} THEN Tail(s) ELSE s

\* !isNaN(value) for a string: Number(value) is a number.  Covers blank
\* strings (Number gives 0) and optionally signed decimal integers, the
\* numeric texts of the documents of this model.
IsNumericString(s) ==
  \/ Trimmed(s) = <<>>
  \/ (Unsigned(Trimmed(s)) # <<>> /\ \A i \in 1..Len(Unsigned(Trimmed(s))) : Unsigned(Trimmed(s))[i] \in DigitSet)

\* Number(value) for such a string
NumberOf(s) ==
  IF Trimmed(s) = <<>> THEN 0
  ELSE IF Trimmed(s)[1] = "-" THEN 0 - DigitsValue(Unsigned(Trimmed(s)))
  ELSE DigitsValue(Unsigned(Trimmed(s)))

\* the value normalizeJsonResponse stores for the entry value `value`
RECURSIVE normalizeJsonResponse(_)
NormalizeEntry(value) ==
  IF value = JStr(<<>>) THEN JNull
  ELSE IF value = JStr(<<"t", "r", "u", "e">>) THEN JBool(TRUE)
  ELSE IF value = JStr(<<"f", "a", "l", "s", "e">>) THEN JBool(FALSE)
  ELSE IF value.t = "str" /\ IsNumericString(value.s) THEN JNum(NumberOf(value.s))
  ELSE IF value.t \in {"obj", "arr"} THEN normalizeJsonResponse(value)
  ELSE value

normalizeJsonResponse(data) ==
  IF data.t = "arr" THEN JArr([i \in 1..Len(data.items) |-> normalizeJsonResponse(data.items[i])])
  ELSE IF data.t = "obj" THEN
    JObj(SpreadInto(<<>>, [i \in 1..Len(data.kv) |->
           [k |-> normalizeKey(data.kv[i].k), v |-> NormalizeEntry(data.kv[i].v)]]))
  ELSE data

\* A computation that returns a value or throws
Returns(v) == [threw |-> FALSE, v |-> v]
Throws(what) == [threw |-> TRUE, what |-> what]

\* XmlConverter.xmlToJson: data that is no well-formed XML makes the parser
\* throw ('XML parsing failed: ...')
xmlToJson(doc, strip) ==
  IF doc.kind = "xml" THEN Returns(normalizeJsonResponse(ParseDocument(doc, strip)))
  ELSE Throws("XML parsing failed")

\* ------------------------------------------------------------------------
\* XmlConverter.extractSoapBody
\* ------------------------------------------------------------------------
\* Array.prototype.find over keys: the first key whose lower-case form
\* contains sub (<<>> when there is none)
FindKeyContaining(obj, sub) ==
  IF \E i \in 1..Len(obj.kv) : includes(toLowerCase(obj.kv[i].k), sub)
    THEN obj.kv[CHOOSE i \in 1..Len(obj.kv) :
                  /\ includes(toLowerCase(obj.kv[i].k), sub)
                  /\ \A j \in 1..(i - 1) : ~includes(toLowerCase(obj.kv[j].k), sub)].k
    ELSE <<>>

\* Object.keys(body).filter(k => !k.toLowerCase().includes('fault'))
NonFaultKeys(body) ==
  SelectSeq(Keys(body), LAMBDA k : ~includes(toLowerCase(k), <<"f", "a", "u", "l", "t">>))

\* Object.keys(x) throws a TypeError for null and undefined
KeysThrows(v) == v.t \in {"null", "undef"}

XmlConverter_extractSoapBody(jsonResponse) ==
  IF KeysThrows(jsonResponse) THEN Throws("TypeError")
  ELSE IF jsonResponse.t # "obj" \/ FindKeyContaining(jsonResponse, <<"e", "n", "v", "e", "l", "o", "p", "e">>) = <<>>
    THEN Returns(jsonResponse)
  ELSE LET envelope == Get(jsonResponse, FindKeyContaining(jsonResponse, <<"e", "n", "v", "e", "l", "o", "p", "e">>)) IN
    IF KeysThrows(envelope) THEN Throws("TypeError")
    ELSE IF envelope.t # "obj" \/ FindKeyContaining(envelope, <<"b", "o", "d", "y">>) = <<>>
      THEN Returns(envelope)
    ELSE LET body == Get(envelope, FindKeyContaining(envelope, <<"b", "o", "d", "y">>)) IN
      IF KeysThrows(body) THEN Throws("TypeError")
      ELSE IF body.t = "obj" /\ Len(NonFaultKeys(body)) = 1
        THEN Returns(Get(body, NonFaultKeys(body)[1]))
      ELSE IF body.t = "arr" /\ Len(body.items) = 1 THEN Returns(body.items[1])
      ELSE IF body.t = "str" /\ Len(body.s) = 1 THEN Returns(body)
      ELSE Returns(body)

\* ========================================================================
\* PromoStandardsAuth.buildAuthHeader / injectAuth
\* ========================================================================
\* A JavaScript string that the code passes around without looking inside
Lit(s) == [t |-> "lit", lit |-> s]

K_wsVersion == <<"w", "s", "V", "e", "r", "s", "i", "o", "n">>
K_id == <<"i", "d">>
K_password == <<"p", "a", "s", "s", "w", "o", "r", "d">>

\* buildAuthHeader(wsVersion) with the fields of the auth object
buildAuthHeader(creds, ownWsVersion, wsVersion) ==
  LET version == Or(wsVersion, ownWsVersion) IN
  IF ~Truthy(version) THEN Throws("wsVersion is required for authentication")
  ELSE Returns(JObj(
         <<[k |-> K_wsVersion, v |-> Lit(version)], [k |-> K_id, v |-> Lit(creds.id)]>>
         \o (IF creds.includePassword /\ Truthy(creds.password)
               THEN <<[k |-> K_password, v |-> Lit(creds.password)]>> ELSE <<>>)))

\* injectAuth(requestData, wsVersion)
injectAuth(creds, ownWsVersion, requestData, wsVersion) ==
  LET authHeader == buildAuthHeader(creds, ownWsVersion, wsVersion) IN
  IF authHeader.threw THEN authHeader
  ELSE IF requestData.t \notin {"obj", "arr"} THEN authHeader
  ELSE IF requestData.t = "arr" THEN Returns(JArr(<<authHeader.v>> \o requestData.items))
  ELSE Returns(JObj(SpreadInto(authHeader.v.kv, requestData.kv)))

\* ========================================================================
\* Errors (core/errors.js) as the call path builds them
\* ========================================================================
NoCause == [cls |-> "none"]

\* an error object: class name, code, message, details.service,
\* details.operation, details.originalError and the `root` property that
\* handleSoapError inspects
MkError(cls, code, message, service, operation, originalError) ==
  [cls |-> cls, code |-> code, message |-> message, service |-> service,
   operation |-> operation, originalError |-> originalError, root |-> JUndef]

\* a template literal `${prefix}${arg}`
Template(prefix, arg) == [t |-> "tmpl", prefix |-> prefix, arg |-> arg]

AuthenticationError(message) ==
  MkError("AuthenticationError", Lit("AUTH_ERROR"), Lit(message), NULL, NULL, NoCause)
ValidationError(message, service, operation) ==
  MkError("ValidationError", Lit("VALIDATION_ERROR"), message, service, operation, NoCause)
ServiceError(message, service, operation, originalError) ==
  MkError("ServiceError", Lit("SERVICE_ERROR"), message, service, operation, originalError)
PromoStandardsError(message, code, operation, originalError) ==
  MkError("PromoStandardsError", code, message, NULL, operation, originalError)
\* a plain Error / TypeError thrown by library or validator code
PlainError(cls, message) == MkError(cls, JUndef, message, NULL, NULL, NoCause)

\* the errors with which the WSDL resolution rejects, as error objects
ResolutionError(e) ==
  MkError(IF e.code = "VALIDATION_ERROR" THEN "ValidationError" ELSE "Error",
          Lit(e.code), Lit(e.msg), NULL, NULL, NoCause)

\* ========================================================================
\* The transport (axios) and the documents it delivers
\* ========================================================================
SoapPrefixes == {<<"s", "o", "a", "p">>, <<"s", "o", "a", "p", "e", "n", "v">>, <<"S", "O", "A", "P", "-", "E", "N", "V">>, <<>>}

QName(prefix, local) == IF prefix = <<>> THEN local ELSE prefix \o <<":">> \o local

\* <GetInventoryLevelsResponse><Inventory><productId>ABC</productId>
\*   <quantity>42</quantity></Inventory></GetInventoryLevelsResponse>
ResponseElement ==
  Elem(<<"G", "e", "t", "I", "n", "v", "e", "n", "t", "o", "r", "y", "L", "e", "v", "e", "l", "s", "R", "e", "s", "p", "o", "n", "s", "e">>, <<>>,
       <<Elem(<<"I", "n", "v", "e", "n", "t", "o", "r", "y">>, <<>>,
              <<Leaf(<<"p", "r", "o", "d", "u", "c", "t", "I", "d">>, <<"A", "B", "C">>), Leaf(<<"q", "u", "a", "n", "t", "i", "t", "y">>, <<"4", "2">>)>>, <<>>)>>, <<>>)

\* <ServiceMessageArray><ServiceMessage>note</ServiceMessage></ServiceMessageArray>
MessageElement ==
  Elem(<<"S", "e", "r", "v", "i", "c", "e", "M", "e", "s", "s", "a", "g", "e", "A", "r", "r", "a", "y">>, <<>>, <<Leaf(<<"S", "e", "r", "v", "i", "c", "e", "M", "e", "s", "s", "a", "g", "e">>, <<"n", "o", "t", "e">>)>>, <<>>)

FaultCodeText == <<"S", "e", "r", "v", "e", "r">>
FaultStringText == <<"d", "e", "n", "i", "e", "d">>

\* <p:Fault><faultcode>Server</faultcode><faultstring>denied</faultstring></p:Fault>
FaultElement(prefix) ==
  Elem(QName(prefix, <<"F", "a", "u", "l", "t">>), <<>>,
       <<Leaf(<<"f", "a", "u", "l", "t", "c", "o", "d", "e">>, FaultCodeText), Leaf(<<"f", "a", "u", "l", "t", "s", "t", "r", "i", "n", "g">>, FaultStringText)>>, <<>>)

\* the children of Body in the documents of the model
BodyContents(prefix) ==
  { <<>>, <<ResponseElement>>, <<ResponseElement, MessageElement>>,
    <<FaultElement(prefix)>>, <<ResponseElement, FaultElement(prefix)>> }

EnvelopeDoc(prefix, kids) ==
  [kind |-> "xml",
   root |-> Elem(QName(prefix, <<"E", "n", "v", "e", "l", "o", "p", "e">>), <<[k |-> IF prefix = <<>> THEN <<"x", "m", "l", "n", "s">> ELSE <<"x", "m", "l", "n", "s", ":">> \o prefix,
                    v |-> <<"u", "r", "n">>]>>,
                 <<Elem(QName(prefix, <<"B", "o", "d", "y">>), <<>>, kids, <<>>)>>, <<>>)]

\* a well-formed document that is no SOAP envelope
PlainDoc == [kind |-> "xml", root |-> ResponseElement]

\* data that is no well-formed XML (an HTML error page, a truncated body)
MalformedDoc == [kind |-> "malformed"]

\* no response data at all
NoDoc == [kind |-> "none"]

Docs ==
  UNION {{EnvelopeDoc(p, kids) : kids \in BodyContents(p)} : p \in SoapPrefixes}
    \cup {PlainDoc, MalformedDoc}

\* the ways in which httpClient.post settles
\*   ok       2xx, response.data = doc
\*   http     non-2xx status: the error carries error.response.data = doc
\*   network  no response (connection refused, DNS failure)
\*   timeout  the configured timeout elapsed (axios code ECONNABORTED)
Replies ==
  [kind : {"ok"}, doc : Docs]
    \cup [kind : {"http"}, doc : Docs \cup {NoDoc}]
    \cup [kind : {"network", "timeout"}, doc : {NoDoc}]

NoReply == [kind |-> "none", doc |-> NoDoc]

\* the error with which axios rejects
AxiosError(reply) ==
  MkError("AxiosError",
          Lit(CASE reply.kind = "http" -> "ERR_BAD_RESPONSE"
                [] reply.kind = "timeout" -> "ECONNABORTED"
                [] OTHER -> "ECONNREFUSED"),
          Lit(CASE reply.kind = "http" -> "Request failed with status code 500"
                [] reply.kind = "timeout" -> "timeout of 30000ms exceeded"
                [] OTHER -> "connect ECONNREFUSED"),
          NULL, NULL, NoCause)

\* ========================================================================
\* SoapClient: response / fault extraction and error mapping
\* ========================================================================
\* a['k1'] || a['k2'] || ... : the first truthy property, else the last one
RECURSIVE FirstTruthy(_, _)
FirstTruthy(obj, ks) ==
  IF Len(ks) = 1 THEN Get(obj, ks[1])
  ELSE IF JTruthy(Get(obj, ks[1])) THEN Get(obj, ks[1])
  ELSE FirstTruthy(obj, Tail(ks))

EnvelopeKeys == <<<<"s", "o", "a", "p", ":", "E", "n", "v", "e", "l", "o", "p", "e">>, <<"S", "O", "A", "P", "-", "E", "N", "V", ":", "E", "n", "v", "e", "l", "o", "p", "e">>, <<"s", "o", "a", "p", "e", "n", "v", ":", "E", "n", "v", "e", "l", "o", "p", "e">>, <<"E", "n", "v", "e", "l", "o", "p", "e">>>>
BodyKeys == <<<<"s", "o", "a", "p", ":", "B", "o", "d", "y">>, <<"S", "O", "A", "P", "-", "E", "N", "V", ":", "B", "o", "d", "y">>, <<"s", "o", "a", "p", "e", "n", "v", ":", "B", "o", "d", "y">>, <<"B", "o", "d", "y">>>>
FaultKeys == <<<<"s", "o", "a", "p", ":", "F", "a", "u", "l", "t">>, <<"S", "O", "A", "P", "-", "E", "N", "V", ":", "F", "a", "u", "l", "t">>, <<"F", "a", "u", "l", "t">>>>

\* Object.keys(body).filter(k => !k.startsWith('$'))
NonDollarKeys(body) ==
  IF body.t = "obj" THEN SelectSeq(Keys(body), LAMBDA k : ~startsWith(k, <<"$">>)) ELSE <<>>

\* SoapClient.extractSoapBody(json)
SoapClient_extractSoapBody(json) ==
  LET envelope == FirstTruthy(json, EnvelopeKeys) IN
  IF ~JTruthy(envelope) THEN json
  ELSE LET body == FirstTruthy(envelope, BodyKeys) IN
    IF ~JTruthy(body) THEN envelope
    ELSE IF NonDollarKeys(body) # <<>> THEN Get(body, NonDollarKeys(body)[1])
    ELSE IF body.t = "str" THEN JStr(<<body.s[1]>>)     \* body['0']
    ELSE IF body.t = "arr" /\ body.items # <<>> THEN body.items[1]
    ELSE body

\* SoapClient.extractSoapFault(json)
extractSoapFault(json) ==
  LET envelope == FirstTruthy(json, EnvelopeKeys)
      body == FirstTruthy(envelope, BodyKeys)
  IN FirstTruthy(body, FaultKeys)

\* SoapClient.handleSoapError(error, operation): always throws
handleSoapError(error, operation) ==
  LET fault == Get(Get(Get(error.root, <<"E", "n", "v", "e", "l", "o", "p", "e">>), <<"B", "o", "d", "y">>), <<"F", "a", "u", "l", "t">>) IN
  IF JTruthy(error.root) /\ JTruthy(Get(error.root, <<"E", "n", "v", "e", "l", "o", "p", "e">>)) /\ JTruthy(fault)
    THEN PromoStandardsError(JOr(Get(fault, <<"f", "a", "u", "l", "t", "s", "t", "r", "i", "n", "g">>), Lit("SOAP Fault")),
                             JOr(Get(fault, <<"f", "a", "u", "l", "t", "c", "o", "d", "e">>), Lit("SOAP_FAULT")),
                             operation, NoCause)
    ELSE PromoStandardsError(Template("SOAP operation failed: ", error.message),
                             Lit("SOAP_ERROR"), operation, error.message)

\* the inner try of the catch block of SoapClient.call: parse
\* error.response.data and throw the fault found in it
FaultFromResponse(error, data, operation) ==
  LET faultJson == xmlToJson(data, TRUE) IN
  IF faultJson.threw THEN Throws(PlainError("Error", Lit(faultJson.what)))
  ELSE LET fault == extractSoapFault(faultJson.v) IN
    IF JTruthy(fault)
      THEN Throws(PromoStandardsError(
             JOr(Get(fault, <<"f", "a", "u", "l", "t", "s", "t", "r", "i", "n", "g">>), JOr(Get(fault, <<"m", "e", "s", "s", "a", "g", "e">>), Lit("SOAP Fault"))),
             JOr(Get(fault, <<"f", "a", "u", "l", "t", "c", "o", "d", "e">>), Lit("SOAP_FAULT")), operation, NoCause))
      ELSE Returns(JUndef)

\* catch (error) { ... } of SoapClient.call: whatever the inner try throws
\* (the parse failure or the fault error) is caught by `catch (parseError)
\* {}`, which is empty; handleSoapError(error, operation) follows
SoapCallCatch(error, data, operation) ==
  LET inner == IF data.kind # "none" THEN FaultFromResponse(error, data, operation)
               ELSE Returns(JUndef)
      afterInnerCatch == IF inner.threw THEN Returns(JUndef) ELSE inner
  IN Throws(handleSoapError(error, operation))


\* SoapClient.call after httpClient.post settled with reply
SoapCallSettles(reply, operation, requestData, includeRaw) ==
  IF reply.kind = "ok" THEN
    LET jsonResponse == xmlToJson(reply.doc, TRUE) IN
    IF jsonResponse.threw
      THEN SoapCallCatch(PlainError("Error", Lit(jsonResponse.what)), NoDoc, operation)
    ELSE LET bodyContent == SoapClient_extractSoapBody(jsonResponse.v)
             normalizedResult == normalizeJsonResponse(bodyContent)
         IN IF includeRaw
              THEN Returns(JObj(<<[k |-> <<"r", "e", "s", "u", "l", "t">>, v |-> normalizedResult],
                                  [k |-> <<"r", "a", "w", "R", "e", "s", "p", "o", "n", "s", "e">>, v |-> [t |-> "raw", doc |-> reply.doc]],
                                  [k |-> <<"r", "a", "w", "R", "e", "q", "u", "e", "s", "t">>, v |-> [t |-> "raw", req |-> requestData]]>>))
              ELSE Returns(normalizedResult)
  ELSE SoapCallCatch(AxiosError(reply), reply.doc, operation)

\* ========================================================================
\* BaseService.call: validateResponse and handleError
\* ========================================================================
\* static serviceName of the service class (inventory-service.js)
serviceName == "Inventory"

\* the operation argument of call(): the two operations of the service
\* and one that has no registered validator
Operations == {"getInventoryLevels", "getFilterValues", "getStatus"}

\* the keys of static responseValidators
ValidatedOperations == {"getInventoryLevels", "getFilterValues"}

\* the registered validator applied to response: the error it throws, or
\* the response it returns
ResponseValidator(operation, response) ==
  IF response.t \in {"null", "undef"}
    THEN Throws(PlainError("TypeError", Lit("Cannot read properties of null")))
  ELSE IF operation = "getInventoryLevels" THEN
    IF ~JTruthy(Get(response, <<"i", "n", "v", "e", "n", "t", "o", "r", "y">>)) /\ ~JTruthy(Get(response, <<"i", "n", "v", "e", "n", "t", "o", "r", "y", "L", "e", "v", "e", "l", "s">>))
      THEN Throws(PlainError("Error", Lit("Invalid response: missing inventory data")))
      ELSE Returns(response)
  ELSE
    IF ~JTruthy(Get(response, <<"f", "i", "l", "t", "e", "r", "V", "a", "l", "u", "e", "s">>))
      THEN Throws(PlainError("Error", Lit("Invalid response: missing filterValues")))
      ELSE Returns(response)

\* BaseService.validateResponse(operation, response)
validateResponse(operation, response) ==
  IF operation \notin ValidatedOperations THEN Returns(response)
  ELSE LET validated == ResponseValidator(operation, response) IN
    IF validated.threw
      THEN Throws(ValidationError(Template("Invalid response from ${operation}: ",
                                           validated.what.message),
                                  serviceName, operation))
      ELSE Returns(JOr(validated.v, response))

\* BaseService.handleError(error, operation)
handleError(error, operation) ==
  IF error.cls = "ServiceError" THEN error
  ELSE IF error.code = Lit("AUTH_ERROR")
    THEN [error EXCEPT !.service = serviceName, !.operation = operation]
  ELSE ServiceError(error.message, serviceName, operation, error)

\* ========================================================================
\* BaseService.call
\* ========================================================================
\* the data argument of call(): a plain request, a request that itself has
\* the keys of the auth header, an array, and null
OverridingPayload ==
  JObj(<<[k |-> K_id, v |-> JStr(<<"o", "t", "h", "e", "r">>)], [k |-> K_password, v |-> JStr(<<"g", "u", "e", "s", "s">>)],
         [k |-> K_wsVersion, v |-> JStr(<<"9", ".", "9", ".", "9">>)], [k |-> <<"p", "r", "o", "d", "u", "c", "t", "I", "d">>, v |-> JStr(<<"A", "B", "C">>)]>>)
Payloads ==
  {JObj(<<[k |-> <<"p", "r", "o", "d", "u", "c", "t", "I", "d">>, v |-> JStr(<<"A", "B", "C">>)]>>),
   OverridingPayload,
   JArr(<<JStr(<<"A", "B", "C">>)>>),
   JNull}

\* the credentials of the auth object (id, password, includePassword)
Credentials == [id : {"user"}, password : {"secret", NULL}, includePassword : BOOLEAN]

\* a call() that has not settled
Pending == [threw |-> FALSE, pending |-> TRUE]

IdleCall ==
  [pc |-> "idle", operation |-> NULL, data |-> JUndef, includeRaw |-> FALSE,
   requestData |-> JUndef, reply |-> NoReply, soapOut |-> Pending, out |-> Pending]

\* call(operation, data, options) up to `await this.ensureWsdlResolved()`
CallBegins(operation, data, includeRaw) ==
  /\ call.pc = "idle"
  /\ EnsureWsdlResolved(1)
  /\ call' = [IdleCall EXCEPT !.pc = "ensuring", !.operation = operation,
                              !.data = data, !.includeRaw = includeRaw]
  /\ UNCHANGED <<authCreds, soapClientReady>>

\* call() after ensureWsdlResolved() settled: a rejection leaves call()
\* as it is (the await is outside the try); otherwise injectAuth, then
\* client.call() up to `await this.initialize()`
CallInjectsAuth ==
  /\ call.pc = "ensuring"
  /\ callers[1].pc = "done"
  /\ IF ~callers[1].out.ok THEN
       call' = [call EXCEPT !.pc = "done",
                            !.out = Throws(ResolutionError(callers[1].out.err))]
     ELSE LET requestData == injectAuth(authCreds, authWsVersion, call.data, svcVersion) IN
       IF requestData.threw
         THEN call' = [call EXCEPT !.pc = "done",
                 !.out = Throws(handleError(AuthenticationError(requestData.what),
                                            call.operation))]
         ELSE call' = [call EXCEPT !.pc = "initializing", !.requestData = requestData.v]
  /\ UNCHANGED <<provVars, svcVars, authCreds, soapClientReady>>

\* the error of SoapClient.initialize when soap.createClientAsync rejects
SoapInitError ==
  PromoStandardsError(Template("Failed to initialize SOAP client: ", Lit("createClientAsync")),
                      Lit("SOAP_INIT_ERROR"), NULL, NoCause)

\* SoapClient.initialize() settles (ok: the WSDL could be loaded), and on
\* success client.call() runs up to `await this.httpClient.post(...)`
SoapInitializes(ok) ==
  /\ call.pc = "initializing"
  /\ IF soapClientReady THEN ok ELSE (ok => Truthy(svcWsdl))
  /\ IF ok
       THEN /\ soapClientReady' = TRUE
            /\ call' = [call EXCEPT !.pc = "posted"]
       ELSE /\ soapClientReady' = soapClientReady
            /\ call' = [call EXCEPT !.pc = "done", !.soapOut = Throws(SoapInitError),
                                    !.out = Throws(handleError(SoapInitError, call.operation))]
  /\ UNCHANGED <<provVars, svcVars, authCreds>>

\* call() after `await this.client.call(...)`: validateResponse, and
\* handleError for whatever was thrown inside the try
CallAfterClient(soapOut, operation) ==
  IF soapOut.threw THEN Throws(handleError(soapOut.what, operation))
  ELSE LET validated == validateResponse(operation, soapOut.v) IN
    IF validated.threw THEN Throws(handleError(validated.what, operation))
    ELSE validated

\* httpClient.post settles with reply: the rest of SoapClient.call and of
\* BaseService.call
PostSettles(reply) ==
  /\ call.pc = "posted"
  /\ LET soapOut == SoapCallSettles(reply, call.operation, call.requestData, call.includeRaw)
     IN call' = [call EXCEPT !.pc = "done", !.reply = reply, !.soapOut = soapOut,
                             !.out = CallAfterClient(soapOut, call.operation)]
  /\ UNCHANGED <<provVars, svcVars, authCreds, soapClientReady>>

\* ========================================================================
\* BaseService.call with a cache collaborator (getCacheKey, getFromCache,
\* setCache)
\* ========================================================================
\* the value JSON.stringify writes for v: object entries whose value is
\* undefined are left out, undefined array items become null
RECURSIVE Jsonable(_)
Jsonable(v) ==
  IF v.t = "obj" THEN
    JObj([i \in 1..Len(SelectSeq(v.kv, LAMBDA e : e.v.t # "undef")) |->
            LET e == SelectSeq(v.kv, LAMBDA x : x.v.t # "undef")[i]
            IN [k |-> e.k, v |-> Jsonable(e.v)]])
  ELSE IF v.t = "arr" THEN
    JArr([i \in 1..Len(v.items) |->
            IF v.items[i].t = "undef" THEN JNull ELSE Jsonable(v.items[i])])
  ELSE v

\* JSON.stringify(v): a JSON text (undefined for undefined)
JSONstringify(v) == IF v.t = "undef" THEN JUndef ELSE [t |-> "json", v |-> Jsonable(v)]

\* JSON.parse(s): the value of a JSON text, a SyntaxError for anything else
JSONparse(s) == IF s.t = "json" THEN Returns(s.v) ELSE Throws("SyntaxError")

\* getCacheKey(operation, data)
getCacheKey(operation, data) ==
  [service |-> serviceName, version |-> svcVersion, operation |-> operation,
   data |-> JSONstringify(data)]

\* cache.get(key) of a Map-like collaborator: the stored string or undefined
Stored(key) ==
  IF \E e \in cacheStore : e.key = key
    THEN (CHOOSE e \in cacheStore : e.key = key).value
    ELSE JUndef

\* the string setCache stores for data at time stamp
cacheData(data, stamp) ==
  JSONstringify(JObj(<<[k |-> <<"d", "a", "t", "a">>, v |-> data], [k |-> <<"t", "i", "m", "e", "s", "t", "a", "m", "p">>, v |-> JNum(stamp)]>>))

\* a string in the cache that is no JSON text
CorruptData == Lit("<html>")

\* the arguments of the calls: an operation without a validator and one
\* with, a request and null, and options.noCache
CachedOperations == {"getStatus", "getInventoryLevels"}
CachedPayloads == {JObj(<<[k |-> <<"p", "r", "o", "d", "u", "c", "t", "I", "d">>, v |-> JStr(<<"A", "B", "C">>)]>>), JNull}

\* what the transport answers in these calls: a response, a network
\* failure, and a fault delivered with status 200
CachedReplies ==
  {[kind |-> "ok", doc |-> EnvelopeDoc(<<"s", "o", "a", "p">>, <<ResponseElement>>)],
   [kind |-> "network", doc |-> NoDoc],
   [kind |-> "ok", doc |-> EnvelopeDoc(<<"s", "o", "a", "p">>, <<FaultElement(<<"s", "o", "a", "p">>)>>)]}

IdleCachedCall ==
  [pc |-> "idle", n |-> 0, operation |-> NULL, data |-> JUndef, noCache |-> FALSE,
   posted |-> FALSE, soapOut |-> Pending, validated |-> JUndef, stamp |-> 0,
   faults |-> {}, found |-> JUndef, at |-> 0, hit |-> FALSE, out |-> Pending]

\* the rest of call() after a cache miss (or without cache), up to
\* `await this.client.call(...)`: injectAuth and the request
MissContinues(c) ==
  IF injectAuth(authCreds, authWsVersion, c.data, svcVersion).threw
    THEN [c EXCEPT !.pc = "done",
            !.out = Throws(handleError(AuthenticationError(
                       injectAuth(authCreds, authWsVersion, c.data, svcVersion).what),
                       c.operation))]
    ELSE [c EXCEPT !.pc = "posted", !.posted = TRUE]

\* call(operation, data, {noCache}) on a service that has its client: up to
\* `await this.cache.get(key)` in getFromCache, or to the request when
\* there is no cache or noCache is set
CachedCallBegins(operation, data, noCache) ==
  /\ ccall.pc \in {"idle", "done"}
  /\ ccall.n < MaxCachedCalls
  /\ LET c == [IdleCachedCall EXCEPT !.n = ccall.n + 1, !.operation = operation,
                                     !.data = data, !.noCache = noCache]
     IN ccall' = IF cacheOn /\ ~noCache THEN [c EXCEPT !.pc = "getting"]
                 ELSE MissContinues(c)
  /\ UNCHANGED <<cacheOn, cacheTTL, cacheStore, now>>

\* (variant of CacheGetSettles without the try of getFromCache: what
\* cache.get or JSON.parse throws rejects call())
CacheGetSettles_Propagates(throws) ==
  /\ ccall.pc = "getting"
  /\ LET cached == Stored(getCacheKey(ccall.operation, ccall.data))
         c == [ccall EXCEPT !.found = cached, !.at = now]
     IN IF throws \/ (JTruthy(cached) /\ JSONparse(cached).threw)
          THEN ccall' = [c EXCEPT !.pc = "done", !.faults = {"get"},
                  !.out = Throws(handleError(PlainError("Error", Lit("cache")),
                                             ccall.operation))]
          ELSE ccall' = MissContinues(c)
  /\ UNCHANGED <<cacheOn, cacheTTL, cacheStore, now>>

\* getFromCache after `await this.cache.get(key)` (throws: the collaborator
\* threw), and call() after it: a hit returns the cached data; an expired
\* entry goes on to `await this.cache.delete(key)`; everything else is a
\* miss
CacheGetSettles(throws) ==
  /\ ccall.pc = "getting"
  /\ LET cached == Stored(getCacheKey(ccall.operation, ccall.data))
         c == [ccall EXCEPT !.found = cached, !.at = now]
         parsed == JSONparse(cached)
         data == Get(parsed.v, <<"d", "a", "t", "a">>)
         timestamp == Get(parsed.v, <<"t", "i", "m", "e", "s", "t", "a", "m", "p">>)
     IN IF throws THEN ccall' = MissContinues([c EXCEPT !.faults = {"get"}])
        ELSE IF ~JTruthy(cached) THEN ccall' = MissContinues(c)
        ELSE IF parsed.threw \/ parsed.v.t \in {"null", "undef"}
          THEN ccall' = MissContinues([c EXCEPT !.faults = {"parse"}])
        ELSE IF timestamp.t = "num" /\ now - timestamp.n > cacheTTL
          THEN ccall' = [c EXCEPT !.pc = "deleting"]
        ELSE IF JTruthy(data)
          THEN ccall' = [c EXCEPT !.pc = "done", !.hit = TRUE, !.out = Returns(data)]
        ELSE ccall' = MissContinues(c)
  /\ UNCHANGED <<cacheOn, cacheTTL, cacheStore, now>>

\* (variant of CacheDeleteSettles that reports the miss and leaves the
\* expired entry in the cache)
CacheDeleteSettles_Keeps(throws) ==
  /\ ccall.pc = "deleting"
  /\ cacheStore' = cacheStore
  /\ ccall' = MissContinues(IF throws THEN [ccall EXCEPT !.faults = {"delete"}] ELSE ccall)
  /\ UNCHANGED <<cacheOn, cacheTTL, now>>

\* getFromCache after `await this.cache.delete(key)`: a miss either way
CacheDeleteSettles(throws) ==
  /\ ccall.pc = "deleting"
  /\ IF throws
       THEN /\ cacheStore' = cacheStore
            /\ ccall' = MissContinues([ccall EXCEPT !.faults = {"delete"}])
       ELSE /\ cacheStore' = {e \in cacheStore :
                                e.key # getCacheKey(ccall.operation, ccall.data)}
            /\ ccall' = MissContinues(ccall)
  /\ UNCHANGED <<cacheOn, cacheTTL, now>>

\* (variant of ClientCallSettles that stores the result of client.call
\* before validateResponse has seen it)
ClientCallSettles_BeforeValidation(reply) ==
  /\ ccall.pc = "posted"
  /\ LET soapOut == SoapCallSettles(reply, ccall.operation,
                       injectAuth(authCreds, authWsVersion, ccall.data, svcVersion).v, FALSE)
         c == [ccall EXCEPT !.soapOut = soapOut]
     IN ccall' = IF soapOut.threw
                   THEN [c EXCEPT !.pc = "done", !.out = CallAfterClient(soapOut, ccall.operation)]
                 ELSE IF cacheOn /\ ~ccall.noCache
                   THEN [c EXCEPT !.pc = "setting", !.validated = soapOut.v, !.stamp = now]
                 ELSE [c EXCEPT !.pc = "done", !.validated = soapOut.v,
                                !.out = CallAfterClient(soapOut, ccall.operation)]
  /\ UNCHANGED <<cacheOn, cacheTTL, cacheStore, now>>

\* call() after `await this.client.call(...)` settled (reply: how the
\* transport settled): validateResponse, then setCache up to
\* `await this.cache.set(key, cacheData)`
ClientCallSettles(reply) ==
  /\ ccall.pc = "posted"
  /\ LET soapOut == SoapCallSettles(reply, ccall.operation,
                       injectAuth(authCreds, authWsVersion, ccall.data, svcVersion).v, FALSE)
         validated == CallAfterClient(soapOut, ccall.operation)
         c == [ccall EXCEPT !.soapOut = soapOut]
     IN ccall' = IF validated.threw THEN [c EXCEPT !.pc = "done", !.out = validated]
                 ELSE IF cacheOn /\ ~ccall.noCache
                   THEN [c EXCEPT !.pc = "setting", !.validated = validated.v, !.stamp = now]
                 ELSE [c EXCEPT !.pc = "done", !.validated = validated.v, !.out = validated]
  /\ UNCHANGED <<cacheOn, cacheTTL, cacheStore, now>>

\* setCache after `await this.cache.set(key, cacheData)`, and the return
\* of call()
CacheSetSettles(throws) ==
  /\ ccall.pc = "setting"
  /\ IF throws
       THEN /\ cacheStore' = cacheStore
            /\ ccall' = [ccall EXCEPT !.pc = "done", !.faults = @ \cup {"set"},
                                      !.out = Returns(ccall.validated)]
       ELSE /\ cacheStore' =
                 {e \in cacheStore : e.key # getCacheKey(ccall.operation, ccall.data)}
                   \cup {[key |-> getCacheKey(ccall.operation, ccall.data),
                          value |-> cacheData(ccall.validated, ccall.stamp)]}
            /\ ccall' = [ccall EXCEPT !.pc = "done", !.out = Returns(ccall.validated)]
  /\ UNCHANGED <<cacheOn, cacheTTL, now>>

\* Date.now() advances
Tick ==
  /\ now < MaxTime
  /\ now' = now + 1
  /\ UNCHANGED <<cacheOn, cacheTTL, cacheStore, ccall>>

\* ========================================================================
\* OneSourceClient (core/onesource-client.js): the discovery reads, their
\* cache and their errors
\* ========================================================================
\* this.serviceTypes: service name and service code
serviceTypes ==
  <<[name |-> <<"i", "n", "v", "e", "n", "t", "o", "r", "y">>, code |-> <<"I", "N", "V">>], [name |-> <<"p", "r", "o", "d", "u", "c", "t", "D", "a", "t", "a">>, code |-> <<"P", "R", "O", "D">>],
    [name |-> <<"i", "n", "v", "o", "i", "c", "e">>, code |-> <<"I", "N", "V", "C">>], [name |-> <<"o", "r", "d", "e", "r", "S", "t", "a", "t", "u", "s">>, code |-> <<"O", "R", "D", "S", "T", "A", "T">>],
    [name |-> <<"o", "r", "d", "e", "r", "S", "h", "i", "p", "m", "e", "n", "t">>, code |-> <<"O", "S", "N">>], [name |-> <<"p", "u", "r", "c", "h", "a", "s", "e", "O", "r", "d", "e", "r">>, code |-> <<"P", "O">>],
    [name |-> <<"p", "r", "i", "c", "i", "n", "g", "C", "o", "n", "f", "i", "g">>, code |-> <<"P", "P", "C">>], [name |-> <<"p", "r", "o", "d", "u", "c", "t", "M", "e", "d", "i", "a">>, code |-> <<"M", "E", "D">>],
    [name |-> <<"p", "r", "o", "d", "u", "c", "t", "C", "o", "m", "p", "l", "i", "a", "n", "c", "e">>, code |-> <<"P", "C", "O", "M", "P">>], [name |-> <<"c", "o", "m", "p", "a", "n", "y", "D", "a", "t", "a">>, code |-> <<"C", "O", "M", "P">>],
    [name |-> <<"r", "e", "m", "i", "t", "t", "a", "n", "c", "e", "A", "d", "v", "i", "c", "e">>, code |-> <<"R", "A">>]>>

\* typeNameMap of getServiceNameByTypeName
typeNameMap ==
  <<[k |-> <<"i", "n", "v", "e", "n", "t", "o", "r", "y">>, v |-> <<"i", "n", "v", "e", "n", "t", "o", "r", "y">>], [k |-> <<"p", "r", "o", "d", "u", "c", "t", "d", "a", "t", "a">>, v |-> <<"p", "r", "o", "d", "u", "c", "t", "D", "a", "t", "a">>],
    [k |-> <<"i", "n", "v", "o", "i", "c", "e">>, v |-> <<"i", "n", "v", "o", "i", "c", "e">>], [k |-> <<"o", "r", "d", "e", "r", "s", "t", "a", "t", "u", "s">>, v |-> <<"o", "r", "d", "e", "r", "S", "t", "a", "t", "u", "s">>],
    [k |-> <<"o", "r", "d", "e", "r", "s", "h", "i", "p", "m", "e", "n", "t", "n", "o", "t", "i", "f", "i", "c", "a", "t", "i", "o", "n">>, v |-> <<"o", "r", "d", "e", "r", "S", "h", "i", "p", "m", "e", "n", "t">>],
    [k |-> <<"p", "u", "r", "c", "h", "a", "s", "e", "o", "r", "d", "e", "r">>, v |-> <<"p", "u", "r", "c", "h", "a", "s", "e", "O", "r", "d", "e", "r">>],
    [k |-> <<"p", "r", "o", "d", "u", "c", "t", "p", "r", "i", "c", "i", "n", "g", "a", "n", "d", "c", "o", "n", "f", "i", "g", "u", "r", "a", "t", "i", "o", "n">>, v |-> <<"p", "r", "i", "c", "i", "n", "g", "C", "o", "n", "f", "i", "g">>],
    [k |-> <<"p", "p", "c">>, v |-> <<"p", "r", "i", "c", "i", "n", "g", "C", "o", "n", "f", "i", "g">>], [k |-> <<"m", "e", "d", "i", "a", "c", "o", "n", "t", "e", "n", "t">>, v |-> <<"p", "r", "o", "d", "u", "c", "t", "M", "e", "d", "i", "a">>],
    [k |-> <<"p", "r", "o", "d", "u", "c", "t", "c", "o", "m", "p", "l", "i", "a", "n", "c", "e">>, v |-> <<"p", "r", "o", "d", "u", "c", "t", "C", "o", "m", "p", "l", "i", "a", "n", "c", "e">>],
    [k |-> <<"c", "o", "m", "p", "a", "n", "y", "d", "a", "t", "a">>, v |-> <<"c", "o", "m", "p", "a", "n", "y", "D", "a", "t", "a">>],
    [k |-> <<"r", "e", "m", "i", "t", "t", "a", "n", "c", "e", "a", "d", "v", "i", "c", "e">>, v |-> <<"r", "e", "m", "i", "t", "t", "a", "n", "c", "e", "A", "d", "v", "i", "c", "e">>]>>

\* getServiceNameByCode(code) || getServiceNameByTypeName(code), for a
\* string or a missing code
getServiceName(serviceCode) ==
  IF ~JTruthy(serviceCode) THEN JNull
  ELSE LET upperCode == [i \in 1..Len(serviceCode.s) |-> UpperOf(serviceCode.s[i])]
           lowerName == SelectSeq(toLowerCase(serviceCode.s), LAMBDA ch : ch # " ")
           byCode == SelectSeq(serviceTypes, LAMBDA info : info.code = upperCode)
           byType == SelectSeq(typeNameMap, LAMBDA e : e.k = lowerName)
       IN IF byCode # <<>> THEN JStr(byCode[1].name)
          ELSE IF byType # <<>> THEN JStr(byType[1].v)
          ELSE JNull

\* normalizeEndpoints(data): every service name with the descriptors of
\* the list, in list order
normalizeEndpoints(data) ==
  LET serviceList == IF data.t = "arr" THEN data
                     ELSE JOr(FirstTruthy(data, <<<<"E", "n", "d", "p", "o", "i", "n", "t", "s">>, <<"e", "n", "d", "p", "o", "i", "n", "t", "s">>, <<"s", "e", "r", "v", "i", "c", "e", "s">>, <<"S", "e", "r", "v", "i", "c", "e", "s">>>>),
                              JArr(<<>>))
      nameOf(service) ==
        getServiceName(FirstTruthy(service, <<<<"S", "e", "r", "v", "i", "c", "e", "C", "o", "d", "e">>, <<"S", "e", "r", "v", "i", "c", "e", "T", "y", "p", "e", "C", "o", "d", "e">>, <<"s", "e", "r", "v", "i", "c", "e", "C", "o", "d", "e">>, <<"c", "o", "d", "e">>>>))
      descriptor(service) ==
        JObj(<<[k |-> <<"v", "e", "r", "s", "i", "o", "n">>, v |-> FirstTruthy(service, <<<<"W", "s", "V", "e", "r", "s", "i", "o", "n">>, <<"V", "e", "r", "s", "i", "o", "n">>, <<"v", "e", "r", "s", "i", "o", "n">>>>)],
               [k |-> <<"w", "s", "d", "l">>, v |-> FirstTruthy(service, <<<<"S", "e", "r", "v", "i", "c", "e", "U", "r", "l">>, <<"w", "s", "d", "l">>, <<"W", "S", "D", "L">>, <<"w", "s", "d", "l", "U", "r", "l">>, <<"W", "S", "D", "L", "U", "r", "l">>>>)],
               [k |-> <<"e", "n", "d", "p", "o", "i", "n", "t">>, v |-> FirstTruthy(service, <<<<"S", "e", "r", "v", "i", "c", "e", "U", "r", "l">>, <<"e", "n", "d", "p", "o", "i", "n", "t">>, <<"E", "n", "d", "p", "o", "i", "n", "t">>, <<"u", "r", "l">>, <<"U", "R", "L">>>>)],
               [k |-> <<"s", "t", "a", "t", "u", "s">>, v |-> JOr(FirstTruthy(service, <<<<"S", "t", "a", "t", "u", "s">>, <<"s", "t", "a", "t", "u", "s">>>>), JStr(<<"a", "c", "t", "i", "v", "e">>))]>>)
      named(name) == SelectSeq(serviceList.items, LAMBDA service : nameOf(service) = JStr(name))
  IN JObj([i \in 1..Len(serviceTypes) |->
             [k |-> serviceTypes[i].name,
              v |-> JArr([j \in 1..Len(named(serviceTypes[i].name)) |->
                            descriptor(named(serviceTypes[i].name)[j])])]])

\* normalizeSupplier(data)
normalizeSupplier(data) ==
  JObj(<<[k |-> <<"i", "d">>, v |-> FirstTruthy(data, <<<<"C", "o", "d", "e">>, <<"c", "o", "d", "e">>, <<"i", "d">>, <<"I", "d">>, <<"s", "u", "p", "p", "l", "i", "e", "r", "I", "d">>, <<"S", "u", "p", "p", "l", "i", "e", "r", "I", "d">>>>)],
         [k |-> <<"n", "a", "m", "e">>, v |-> FirstTruthy(data, <<<<"N", "a", "m", "e">>, <<"n", "a", "m", "e">>, <<"c", "o", "m", "p", "a", "n", "y", "N", "a", "m", "e">>, <<"C", "o", "m", "p", "a", "n", "y", "N", "a", "m", "e">>>>)],
         [k |-> <<"a", "s", "i", "N", "u", "m", "b", "e", "r">>, v |-> FirstTruthy(data, <<<<"A", "s", "i", "N", "u", "m", "b", "e", "r">>, <<"a", "s", "i", "N", "u", "m", "b", "e", "r">>, <<"A", "S", "I", "N", "u", "m", "b", "e", "r">>, <<"a", "s", "i">>>>)],
         [k |-> <<"s", "a", "g", "e", "I", "d">>, v |-> FirstTruthy(data, <<<<"S", "a", "g", "e", "N", "u", "m", "b", "e", "r">>, <<"s", "a", "g", "e", "I", "d">>, <<"S", "A", "G", "E", "I", "d">>, <<"s", "a", "g", "e">>>>)],
         [k |-> <<"p", "p", "a", "i", "I", "d">>, v |-> FirstTruthy(data, <<<<"P", "p", "a", "i", "N", "u", "m", "b", "e", "r">>, <<"p", "p", "a", "i", "I", "d">>, <<"P", "P", "A", "I", "I", "d">>, <<"p", "p", "a", "i">>>>)],
         [k |-> <<"w", "e", "b", "s", "i", "t", "e">>, v |-> FirstTruthy(data, <<<<"W", "e", "b", "s", "i", "t", "e">>, <<"w", "e", "b", "s", "i", "t", "e">>, <<"u", "r", "l">>>>)],
         [k |-> <<"s", "t", "a", "t", "u", "s">>, v |-> JOr(FirstTruthy(data, <<<<"S", "t", "a", "t", "u", "s">>, <<"s", "t", "a", "t", "u", "s">>>>), JStr(<<"a", "c", "t", "i", "v", "e">>))],
         [k |-> <<"e", "n", "d", "p", "o", "i", "n", "t", "s">>, v |-> IF JTruthy(Get(data, <<"e", "n", "d", "p", "o", "i", "n", "t", "s">>))
                                    THEN normalizeEndpoints(Get(data, <<"e", "n", "d", "p", "o", "i", "n", "t", "s">>)) ELSE JNull]>>)

\* normalizeSupplierList(data)
normalizeSupplierList(data) ==
  LET suppliers == IF data.t = "arr" THEN data
                   ELSE JOr(FirstTruthy(data, <<<<"C", "o", "m", "p", "a", "n", "i", "e", "s">>, <<"c", "o", "m", "p", "a", "n", "i", "e", "s">>, <<"s", "u", "p", "p", "l", "i", "e", "r", "s">>, <<"S", "u", "p", "p", "l", "i", "e", "r", "s">>>>),
                            JArr(<<>>))
  IN JArr([i \in 1..Len(suppliers.items) |-> normalizeSupplier(suppliers.items[i])])

\* s.split('.')
RECURSIVE SplitDots(_)
SplitDots(s) ==
  IF \A i \in 1..Len(s) : s[i] # "." THEN <<s>>
  ELSE LET d == CHOOSE i \in 1..Len(s) : s[i] = "." /\ \A j \in 1..(i - 1) : s[j] # "."
       IN <<SubSeq(s, 1, d - 1)>> \o SplitDots(SubSeq(s, d + 1, Len(s)))

\* parts.map(Number)[i] || 0, for components that are runs of digits (a
\* number), empty (0) or other text (NaN): a missing component, 0 and NaN
\* all give 0
NumberAt(parts, i) ==
  IF i <= Len(parts) /\ (\A k \in 1..Len(parts[i]) : parts[i][k] \in DigitSet)
    THEN DigitsValue(parts[i]) ELSE 0

\* the first index from i to n at which the numbers of the two lists
\* differ, or n + 1
RECURSIVE FirstDifference(_, _, _, _)
FirstDifference(partsA, partsB, i, n) ==
  IF i > n \/ NumberAt(partsA, i) # NumberAt(partsB, i) THEN i
  ELSE FirstDifference(partsA, partsB, i + 1, n)

\* (variant of compareVersions that compares the first components only)
compareVersions_MajorOnly(a, b) ==
  IF ~JTruthy(a) \/ ~JTruthy(b) THEN 0
  ELSE NumberAt(SplitDots(a.s), 1) - NumberAt(SplitDots(b.s), 1)

\* the loop of compareVersions once it stopped at index d of n: the
\* difference of the numbers there, or 0 after the last index
DifferenceAt(partsA, partsB, d, n) ==
  IF d > n THEN 0 ELSE NumberAt(partsA, d) - NumberAt(partsB, d)

\* the loop of compareVersions over Math.max(partsA.length, partsB.length)
\* indices
CompareParts(partsA, partsB, n) ==
  DifferenceAt(partsA, partsB, FirstDifference(partsA, partsB, 1, n), n)

\* Math.max(m, n)
Max(m, n) == IF m > n THEN m ELSE n

\* compareVersions(a, b): negative, zero or positive
compareVersions(a, b) ==
  IF ~JTruthy(a) \/ ~JTruthy(b) THEN 0
  ELSE CompareParts(SplitDots(a.s), SplitDots(b.s),
                    Max(Len(SplitDots(a.s)), Len(SplitDots(b.s))))

\* serviceEndpoints.sort((a, b) => this.compareVersions(b.version,
\* a.version)): Array.prototype.sort is stable, and on versions that all
\* are strings the comparator is consistent, so the result is that of a
\* stable insertion
InsertLatestFirst(sorted, x) ==
  LET before == {j \in 0..Len(sorted) :
                   \A i \in 1..j : compareVersions(Get(x, <<"v", "e", "r", "s", "i", "o", "n">>),
                                                    Get(sorted[i], <<"v", "e", "r", "s", "i", "o", "n">>)) <= 0}
      at == CHOOSE j \in before : \A k \in before : k <= j
  IN SubSeq(sorted, 1, at) \o <<x>> \o SubSeq(sorted, at + 1, Len(sorted))

RECURSIVE sortLatestFirst(_)
sortLatestFirst(items) ==
  IF Len(items) <= 1 THEN items
  ELSE InsertLatestFirst(sortLatestFirst(SubSeq(items, 1, Len(items) - 1)), items[Len(items)])

\* an error of errors.js with its details
DetailedError(cls, message, details) ==
  [cls |-> cls,
   code |-> IF cls = "ValidationError" THEN "VALIDATION_ERROR" ELSE "NETWORK_ERROR",
   message |-> message, details |-> details]

\* OneSourceClient.handleError(error, operation), which always throws.
\* error: an axios error with a response (kind "http"), without one (kind
\* "network"), or an error thrown by the client's own code
OneSource_handleError(error, operation) ==
  IF error.kind = "http" THEN
    IF error.status = 404
      THEN DetailedError("ValidationError", Template("Not found: ${message}", error.message),
                         [operation |-> operation, status |-> error.status])
      ELSE DetailedError("NetworkError", Template("HTTP ${status}: ${message}", <<error.status, error.message>>),
                         [operation |-> operation, status |-> error.status, response |-> error.data])
  ELSE DetailedError("NetworkError", Template("Network error: ${error.message}", error.message),
                     [operation |-> operation, originalError |-> error.message])

\* the cache keys
KeyOf(op, supplierId, service, version) ==
  CASE op \in {"getSuppliers", "searchSuppliers"} -> <<Lit("suppliers"), Lit("all")>>
    [] op = "getSupplier" -> <<Lit("supplier"), supplierId>>
    [] op \in {"getSupplierEndpoints", "getSupportedServices"} -> <<Lit("endpoints"), supplierId>>
    [] op = "getServiceEndpoint" ->
         <<Lit("endpoint"), supplierId, service, JOr(version, JStr(<<"l", "a", "t", "e", "s", "t">>))>>

\* (variant of FreshEntries without the TTL check)
FreshEntries_Forever(key) == {e \in osStore : e.key = key}

\* getFromCache(key): the entry of the Map, if it is not older than
\* cacheTTL
FreshEntries(key) == {e \in osStore : e.key = key /\ ~(now - e.timestamp > osTTL)}

\* the Map after getFromCache(key): an entry older than cacheTTL is deleted
AfterLookup(store, key) == {e \in store : e.key # key \/ ~(now - e.timestamp > osTTL)}

\* the Map after setCache(key, data)
AfterSet(store, key, data) ==
  {e \in store : e.key # key} \cup {[key |-> key, data |-> data, timestamp |-> now]}

\* searchSuppliers after `await this.getSuppliers()`
FilterSuppliers(suppliers, query) ==
  LET searchTerm == IF query.t = "str" THEN toLowerCase(query.s)
                    ELSE toLowerCase(JOr(Get(query, <<"n", "a", "m", "e">>), JStr(<<>>)).s)
      has(s, k) == Get(s, k).t = "str"
      matches(s) ==
        \/ (has(s, <<"n", "a", "m", "e">>) /\ includes(toLowerCase(Get(s, <<"n", "a", "m", "e">>).s), searchTerm))
        \/ (has(s, <<"i", "d">>) /\ includes(toLowerCase(Get(s, <<"i", "d">>).s), searchTerm))
        \/ (has(s, <<"a", "s", "i", "N", "u", "m", "b", "e", "r">>) /\ includes(Get(s, <<"a", "s", "i", "N", "u", "m", "b", "e", "r">>).s, searchTerm))
  IN JArr(SelectSeq(suppliers.items, matches))

\* getServiceEndpoint after `await this.getSupplierEndpoints(supplierId)`
\* returned endpoints: the outcome, and the serviceName list of endpoints
\* as the in-place sort leaves it
SelectEndpoint(endpoints, supplierId, service, version) ==
  LET serviceEndpoints == Get(endpoints, service.s)
      withVersion == SelectSeq(serviceEndpoints.items, LAMBDA e : Get(e, <<"v", "e", "r", "s", "i", "o", "n">>) = version)
      sorted == sortLatestFirst(serviceEndpoints.items)
  IN IF ~JTruthy(serviceEndpoints) \/ Len(serviceEndpoints.items) = 0 THEN
       [out |-> Throws(DetailedError("ValidationError",
                  Template("Supplier ${supplierId} does not support ${serviceName}", <<supplierId, service>>),
                  [supplierId |-> supplierId, serviceName |-> service,
                   availableServices |-> SelectSeq(Keys(endpoints),
                                            LAMBDA k : Len(Get(endpoints, k).items) > 0)])),
        endpoints |-> endpoints]
     ELSE IF JTruthy(version) THEN
       [out |-> IF withVersion # <<>> THEN Returns(withVersion[1])
                ELSE Throws(DetailedError("ValidationError",
                       Template("Version ${version} not available for ${serviceName}", <<version, service>>),
                       [supplierId |-> supplierId, serviceName |-> service,
                        requestedVersion |-> version,
                        availableVersions |-> [i \in 1..Len(serviceEndpoints.items) |->
                                                 Get(serviceEndpoints.items[i], <<"v", "e", "r", "s", "i", "o", "n">>)]])),
        endpoints |-> endpoints]
     ELSE
       [out |-> Returns(sorted[1]),
        endpoints |-> JObj(Put(endpoints.kv, service.s, JArr(sorted)))]

\* getSupportedServices after `await this.getSupplierEndpoints(supplierId)`
\* returned endpoints: the services that have descriptors, each with its
\* versions as listed and the first version of its list once sorted; and
\* endpoints as the in-place sorts leave it
SupportedServices(endpoints) ==
  LET n == Len(endpoints.kv)
      sorted == [i \in 1..n |-> sortLatestFirst(endpoints.kv[i].v.items)]
      entries == [i \in 1..n |->
                   JObj(<<[k |-> <<"s", "e", "r", "v", "i", "c", "e", "N", "a", "m", "e">>, v |-> JStr(endpoints.kv[i].k)],
                          [k |-> <<"v", "e", "r", "s", "i", "o", "n", "s">>,
                           v |-> JArr([j \in 1..Len(endpoints.kv[i].v.items) |->
                                        Get(endpoints.kv[i].v.items[j], <<"v", "e", "r", "s", "i", "o", "n">>)])],
                          [k |-> <<"l", "a", "t", "e", "s", "t", "V", "e", "r", "s", "i", "o", "n">>,
                           v |-> IF sorted[i] = <<>> THEN JUndef
                                 ELSE Get(sorted[i][1], <<"v", "e", "r", "s", "i", "o", "n">>)]>>)]
  IN [out |-> Returns(JArr(SelectSeq(entries, LAMBDA e : Get(e, <<"v", "e", "r", "s", "i", "o", "n", "s">>).items # <<>>))),
      endpoints |-> JObj([i \in 1..n |-> [k |-> endpoints.kv[i].k, v |-> JArr(sorted[i])]])]

\* ------------------------------------------------------------------------
\* The discovery API: what it answers
\* ------------------------------------------------------------------------
\* companies as the API lists them, with the field names normalizeSupplier
\* accepts
RawSuppliers ==
  <<JObj(<<[k |-> <<"C", "o", "d", "e">>, v |-> JStr(<<"A", "C", "M">>)], [k |-> <<"N", "a", "m", "e">>, v |-> JStr(<<"A", "c", "m", "e">>)],
           [k |-> <<"A", "s", "i", "N", "u", "m", "b", "e", "r">>, v |-> JStr(<<"A", "1", "2">>)]>>),
    JObj(<<[k |-> <<"c", "o", "d", "e">>, v |-> JStr(<<"b", "t">>)], [k |-> <<"n", "a", "m", "e">>, v |-> JStr(<<"B", "e", "t", "a">>)],
           [k |-> <<"a", "s", "i">>, v |-> JStr(<<"3", "0", "2", "3", "2">>)]>>),
    JObj(<<[k |-> <<"I", "d">>, v |-> JStr(<<"Z", "E", "D">>)]>>)>>

\* response.data of /json/companies: the array, or an object holding it
CompaniesData ==
  {JArr(RawSuppliers),
   JObj(<<[k |-> <<"C", "o", "m", "p", "a", "n", "i", "e", "s">>, v |-> JArr(<<RawSuppliers[2], RawSuppliers[1]>>)]>>)}

\* one service of an endpoint list
RawService(code, version) ==
  JObj(<<[k |-> <<"S", "e", "r", "v", "i", "c", "e", "C", "o", "d", "e">>, v |-> JStr(code)], [k |-> <<"W", "s", "V", "e", "r", "s", "i", "o", "n">>, v |-> JStr(version)],
         [k |-> <<"S", "e", "r", "v", "i", "c", "e", "U", "r", "l">>, v |-> JStr(<<"h", "t", "t", "p", "s", ":", "/", "/">> \o code \o <<"/">> \o version)]>>)

\* response.data of /json/companies/{id}/endpoints
EndpointsData ==
  {JArr(<<RawService(<<"I", "N", "V">>, <<"1", ".", "2", ".", "1">>), RawService(<<"i", "n", "v">>, <<"2", ".", "0", ".", "0">>),
          RawService(<<"I", "n", "v", "e", "n", "t", "o", "r", "y">>, <<"1", ".", "0", ".", "0">>), RawService(<<"P", "r", "o", "d", "u", "c", "t", " ", "D", "a", "t", "a">>, <<"1", ".", "0", ".", "0">>)>>),
   JArr(<<RawService(<<"I", "N", "V">>, <<"1", ".", "9">>), RawService(<<"I", "N", "V">>, <<"1", ".", "1", "0", ".", "0">>)>>),
   JObj(<<[k |-> <<"E", "n", "d", "p", "o", "i", "n", "t", "s">>, v |-> JArr(<<RawService(<<"I", "N", "V">>, <<"2", ".", "0">>), RawService(<<"I", "N", "V">>, <<"2", ".", "0", ".", "0">>),
                                            RawService(<<"I", "N", "V">>, <<"1", ".", "2">>)>>)]>>)}

\* the query of searchSuppliers: a string, or an object with a name
SearchQueries ==
  {JStr(<<"a", "c">>), JStr(<<"A", "1">>), JStr(<<"0", "2", "3">>), JObj(<<[k |-> <<"n", "a", "m", "e">>, v |-> JStr(<<"B", "E", "T">>)]>>)}

\* the reads and their arguments
DiscoveryRequests ==
  LET read(op, supplierId, service, version, query) ==
        [op |-> op, supplierId |-> supplierId, service |-> service, version |-> version,
         query |-> query]
  IN {read("getSuppliers", JUndef, JUndef, JUndef, JUndef),
      read("getSupplier", JStr(<<"A", "C", "M">>), JUndef, JUndef, JUndef),
      read("getSupplier", JUndef, JUndef, JUndef, JUndef),
      read("getSupplierEndpoints", JStr(<<"A", "C", "M">>), JUndef, JUndef, JUndef),
      read("getServiceEndpoint", JStr(<<"A", "C", "M">>), JStr(<<"i", "n", "v", "e", "n", "t", "o", "r", "y">>), JUndef, JUndef),
      read("getServiceEndpoint", JStr(<<"A", "C", "M">>), JStr(<<"i", "n", "v", "e", "n", "t", "o", "r", "y">>), JStr(<<"2", ".", "0", ".", "0">>), JUndef),
      read("getServiceEndpoint", JStr(<<"A", "C", "M">>), JStr(<<"i", "n", "v", "e", "n", "t", "o", "r", "y">>), JStr(<<"9", ".", "9", ".", "9">>), JUndef),
      read("getServiceEndpoint", JStr(<<"A", "C", "M">>), JStr(<<"i", "n", "v", "o", "i", "c", "e">>), JUndef, JUndef),
      read("getServiceEndpoint", JStr(<<"A", "C", "M">>), JStr(<<"b", "o", "g", "u", "s">>), JUndef, JUndef),
      read("getSupportedServices", JStr(<<"A", "C", "M">>), JUndef, JUndef, JUndef)}
     \cup {read("searchSuppliers", JUndef, JUndef, JUndef, query) : query \in SearchQueries}

\* the request a read makes upstream: the read whose path it fetches
FetchOf(op) ==
  CASE op = "searchSuppliers" -> "getSuppliers"
    [] op \in {"getServiceEndpoint", "getSupportedServices"} -> "getSupplierEndpoints"
    [] OTHER -> op

\* the ways in which httpClient.get settles for the request of fetchOp
DiscoveryReplies(fetchOp) ==
  [kind : {"ok"},
   data : CASE fetchOp = "getSuppliers" -> CompaniesData
            [] fetchOp = "getSupplier" -> {RawSuppliers[1]}
            [] OTHER -> EndpointsData]
  \cup [kind : {"http"}, status : {404, 500}, message : {Lit("Request failed")}, data : {JNull}]
  \cup [kind : {"network"}, message : {Lit("connect ECONNREFUSED")}]

IdleRead ==
  [pc |-> "idle", n |-> 0, req |-> JUndef, found |-> FALSE, requests |-> 0,
   reply |-> JUndef, viaList |-> FALSE, data |-> JUndef, out |-> Pending]

\* the argument checks of a read: the ValidationError it throws, if any
ArgumentError(req) ==
  IF req.op \in {"getSupplier", "getSupplierEndpoints"} /\ ~JTruthy(req.supplierId)
    THEN Throws(DetailedError("ValidationError", Lit("supplierId is required"), [method |-> req.op]))
  ELSE IF req.op = "getServiceEndpoint" /\ (~JTruthy(req.supplierId) \/ ~JTruthy(req.service))
    THEN Throws(DetailedError("ValidationError", Lit("supplierId and serviceName are required"),
                  [method |-> req.op,
                   provided |-> [supplierId |-> req.supplierId, serviceName |-> req.service,
                                 version |-> req.version]]))
  ELSE IF req.op = "getServiceEndpoint"
          /\ \A i \in 1..Len(serviceTypes) : serviceTypes[i].name # req.service.s
    THEN Throws(DetailedError("ValidationError", Template("Unknown service: ${serviceName}", req.service),
                  [method |-> req.op,
                   availableServices |-> [i \in 1..Len(serviceTypes) |-> serviceTypes[i].name]]))
  ELSE Returns(JUndef)

\* a read once the data of its fetch (or of the cache entry of that fetch)
\* is there: the outcome and the Map.  getServiceEndpoint sorts the list
\* held by the endpoints entry in place, and stores the endpoint it
\* selects; getSupportedServices sorts every list of that entry in place
ReadCompletes(store, req, data) ==
  IF req.op = "searchSuppliers"
    THEN [out |-> Returns(FilterSuppliers(data, req.query)), store |-> store]
  ELSE IF req.op = "getServiceEndpoint" THEN
    LET sel == SelectEndpoint(data, req.supplierId, req.service, req.version)
        ekey == KeyOf("getSupplierEndpoints", req.supplierId, req.service, req.version)
        key == KeyOf(req.op, req.supplierId, req.service, req.version)
        sortedIn == {IF e.key = ekey THEN [e EXCEPT !.data = sel.endpoints] ELSE e : e \in store}
    IN [out |-> sel.out,
        store |-> IF sel.out.threw THEN sortedIn ELSE AfterSet(sortedIn, key, sel.out.v)]
  ELSE IF req.op = "getSupportedServices" THEN
    LET all == SupportedServices(data)
        ekey == KeyOf("getSupplierEndpoints", req.supplierId, req.service, req.version)
    IN [out |-> all.out,
        store |-> {IF e.key = ekey THEN [e EXCEPT !.data = all.endpoints] ELSE e : e \in store}]
  ELSE [out |-> Returns(data), store |-> store]

\* a read up to its first await: the argument checks, getFromCache on its
\* key (getSupportedServices has none) and, for getServiceEndpoint and
\* getSupportedServices, on the key of getSupplierEndpoints;
\* then it has returned, or its request is with the transport
DiscoveryBegins(req) ==
  /\ osCall.pc \in {"idle", "done"}
  /\ osCall.n < MaxReads
  /\ LET c == [IdleRead EXCEPT !.n = osCall.n + 1, !.req = req]
         key == KeyOf(req.op, req.supplierId, req.service, req.version)
         hit == FreshEntries(key)
         ekey == KeyOf(FetchOf(req.op), req.supplierId, req.service, req.version)
         store1 == AfterLookup(osStore, key)
         inner == FreshEntries(ekey)
         done == ReadCompletes(AfterLookup(store1, ekey), req, (CHOOSE e \in inner : TRUE).data)
     IN IF ArgumentError(req).threw
          THEN osCall' = [c EXCEPT !.pc = "done", !.out = ArgumentError(req)] /\ osStore' = osStore
        ELSE IF hit # {} /\ req.op # "getSupportedServices"
          THEN /\ osCall' = [c EXCEPT !.pc = "done", !.found = TRUE,
                    !.data = (CHOOSE e \in hit : TRUE).data,
                    !.out = IF req.op = "searchSuppliers"
                              THEN Returns(FilterSuppliers((CHOOSE e \in hit : TRUE).data, req.query))
                              ELSE Returns((CHOOSE e \in hit : TRUE).data)]
               /\ osStore' = osStore
        ELSE IF req.op \in {"getServiceEndpoint", "getSupportedServices"} /\ inner # {}
          THEN /\ osCall' = [c EXCEPT !.pc = "done", !.out = done.out,
                                      !.viaList = TRUE,
                                      !.data = (CHOOSE e \in inner : TRUE).data]
               /\ osStore' = done.store
        ELSE /\ osCall' = [c EXCEPT !.pc = "fetching", !.requests = 1]
             /\ osStore' = AfterLookup(store1, ekey)
  /\ UNCHANGED <<osTTL, now>>

\* (variant of DiscoveryFetchSettles in which getServiceEndpoint passes
\* every error it catches to handleError)
DiscoveryFetchSettles_Rewraps(reply) ==
  /\ osCall.pc = "fetching"
  /\ reply \in DiscoveryReplies(FetchOf(osCall.req.op))
  /\ LET req == osCall.req
         key == KeyOf(FetchOf(req.op), req.supplierId, req.service, req.version)
         data == IF FetchOf(req.op) = "getSuppliers" THEN normalizeSupplierList(reply.data)
                 ELSE IF FetchOf(req.op) = "getSupplier" THEN normalizeSupplier(reply.data)
                 ELSE normalizeEndpoints(reply.data)
         done == ReadCompletes(AfterSet(osStore, key, data), req, data)
         thrown == OneSource_handleError(reply, FetchOf(req.op))
         rewrap(e) == OneSource_handleError([kind |-> "thrown", message |-> e.message], req.op)
     IN IF reply.kind = "ok"
          THEN /\ osCall' = [osCall EXCEPT !.pc = "done", !.reply = reply, !.data = data,
                    !.out = IF done.out.threw /\ req.op = "getServiceEndpoint"
                              THEN Throws(rewrap(done.out.what)) ELSE done.out]
               /\ osStore' = done.store
          ELSE /\ osCall' = [osCall EXCEPT !.pc = "done", !.reply = reply,
                    !.out = IF req.op = "getServiceEndpoint"
                              THEN Throws(rewrap(thrown)) ELSE Throws(thrown)]
               /\ osStore' = osStore
  /\ UNCHANGED <<osTTL, now>>

\* a read after `await this.httpClient.get(...)` settled with reply:
\* normalize, setCache and the rest of the read; or handleError, and in
\* getServiceEndpoint the catch around getSupplierEndpoints, which rethrows
\* a ValidationError and hands every other error to handleError again
DiscoveryFetchSettles(reply) ==
  /\ osCall.pc = "fetching"
  /\ reply \in DiscoveryReplies(FetchOf(osCall.req.op))
  /\ LET req == osCall.req
         key == KeyOf(FetchOf(req.op), req.supplierId, req.service, req.version)
         data == IF FetchOf(req.op) = "getSuppliers" THEN normalizeSupplierList(reply.data)
                 ELSE IF FetchOf(req.op) = "getSupplier" THEN normalizeSupplier(reply.data)
                 ELSE normalizeEndpoints(reply.data)
         done == ReadCompletes(AfterSet(osStore, key, data), req, data)
         thrown == OneSource_handleError(reply, FetchOf(req.op))
         rewrap(e) == OneSource_handleError([kind |-> "thrown", message |-> e.message], req.op)
     IN IF reply.kind = "ok"
          THEN /\ osCall' = [osCall EXCEPT !.pc = "done", !.reply = reply, !.data = data,
                                           !.out = done.out]
               /\ osStore' = done.store
          ELSE /\ osCall' = [osCall EXCEPT !.pc = "done", !.reply = reply,
                    !.out = IF req.op = "getServiceEndpoint" /\ thrown.cls # "ValidationError"
                              THEN Throws(rewrap(thrown)) ELSE Throws(thrown)]
               /\ osStore' = osStore
  /\ UNCHANGED <<osTTL, now>>

\* clearCache()
clearCache ==
  /\ osStore # {}
  /\ osStore' = {}
  /\ UNCHANGED <<osTTL, osCall, now>>

\* ========================================================================
\* Functions applied to one input
\* ========================================================================
\* the version texts of the endpoint lists
VersionTexts == {<<"1", ".", "2">>, <<"1", ".", "2", ".", "0">>, <<"1", ".", "2", ".", "1">>, <<"1", ".", "9">>, <<"1", ".", "1", "0", ".", "0">>, <<"2", ".", "0", ".", "0">>}

\* the endpoint lists of a supplier: up to MaxListed inventory services in
\* every order, repetitions included
LatestInputs ==
  [fn : {"getServiceEndpoint"},
   list : UNION {[1..n -> {RawService(<<"I", "N", "V">>, v) : v \in VersionTexts}] : n \in 1..MaxListed}]

\* getServiceEndpoint(supplierId, 'inventory') without a version, on the
\* endpoint list the API returned
SelectsLatest ==
  /\ fnIn.fn = "getServiceEndpoint"
  /\ fnOut = Pending
  /\ fnOut' = SelectEndpoint(normalizeEndpoints(JArr(fnIn.list)), JStr(<<"A", "C", "M">>),
                             JStr(<<"i", "n", "v", "e", "n", "t", "o", "r", "y">>), JUndef).out
  /\ UNCHANGED fnIn

\* the length limit of validateCredentials
MaxCredentialLength == 64

\* a string of n characters
Filled(n) == JStr([i \in 1..n |-> "x"])

\* the credentials handed to new PromoStandardsAuth(credentials): id,
\* username and password absent, empty, or of a length at or just over the
\* limit
AuthInputs ==
  [fn : {"PromoStandardsAuth"},
   id : {JUndef, Filled(0), Filled(MaxCredentialLength), Filled(MaxCredentialLength + 1)},
   username : {JUndef, Filled(1), Filled(MaxCredentialLength), Filled(MaxCredentialLength + 1)},
   password : {JUndef, Filled(MaxCredentialLength), Filled(MaxCredentialLength + 1)}]

\* PromoStandardsAuth.validateCredentials(credentials)
validateCredentials(credentials) ==
  IF ~JTruthy(credentials.id) /\ ~JTruthy(credentials.username)
    THEN Throws(AuthenticationError("Missing required credential: id or username"))
  ELSE IF JTruthy(credentials.id) /\ Len(credentials.id.s) > MaxCredentialLength
    THEN Throws(AuthenticationError("ID exceeds maximum length of 64 characters"))
  ELSE IF JTruthy(credentials.password) /\ Len(credentials.password.s) > MaxCredentialLength
    THEN Throws(AuthenticationError("Password exceeds maximum length of 64 characters"))
  ELSE Returns(JUndef)

\* new PromoStandardsAuth(credentials): the error, or the id and password
\* of the object
ConstructsAuth ==
  /\ fnIn.fn = "PromoStandardsAuth"
  /\ fnOut = Pending
  /\ fnOut' = IF validateCredentials(fnIn).threw THEN validateCredentials(fnIn)
              ELSE Returns([id |-> JOr(fnIn.id, fnIn.username), password |-> fnIn.password])
  /\ UNCHANGED fnIn

\* the options handed to new InventoryService(options): built on a static
\* WSDL, on a wsdlProvider, or on neither; without a version, with a
\* supported one, with an unsupported one
ServiceInputs ==
  [fn : {"BaseService"},
   options : [wsdl : {NULL, "ws"}, wsdlProvider : BOOLEAN, version : {NULL, "1.2.1", "2.0.0", "9.9.9"},
              defaultVersion : {"2.0.0"}, endpoint : {NULL}, authInstance : {TRUE},
              authVersion : {NULL}]]

\* BaseService.validateOptions(options)
validateOptions(options) ==
  IF ~Truthy(options.wsdl) /\ ~options.wsdlProvider
    THEN Throws(DetailedError("ValidationError", Lit("WSDL URL or wsdlProvider is required"),
                              [service |-> serviceName]))
  ELSE IF Truthy(options.version) /\ supportedVersions # {} /\ ~options.wsdlProvider
          /\ options.version \notin supportedVersions
    THEN Throws(DetailedError("ValidationError",
                              Template("Unsupported version: ${options.version}", options.version),
                              [service |-> serviceName, supportedVersions |-> supportedVersions,
                               provided |-> options.version]))
  ELSE Returns(JUndef)

\* new InventoryService(options): the error, or this.version and the
\* wsVersion of this.auth, which call() puts into every request
ConstructsService ==
  /\ fnIn.fn = "BaseService"
  /\ fnOut = Pending
  /\ fnOut' = IF validateOptions(fnIn.options).threw THEN validateOptions(fnIn.options)
              ELSE Returns([version |-> CtorVersion(fnIn.options),
                            wsVersion |-> Or(CtorVersion(fnIn.options),
                                             CreateAuthWsVersion(fnIn.options))])
  /\ UNCHANGED fnIn

\* the texts of the leaves
LeafTexts == {<<>>, <<"t", "r", "u", "e">>, <<"f", "a", "l", "s", "e">>, <<"4", "2">>, <<"-", "7">>, <<"1", "2", "a", "b", "c">>, <<"T", "r", "u", "e">>}

\* documents with leaves at depth one and two, alone and as repeated
\* siblings:
\*   single    <r><v>t1</v><w>t2</w></r>
\*   nested    <r><g><v>t1</v><w>t2</w></g></r>
\*   repeated  <r><v>t1</v><v>t2</v></r>
\*   both      <r><g><v>t1</v><v>t2</v></g></r>
XmlInputs ==
  [fn : {"xmlToJson"}, shape : {"single", "nested", "repeated", "both"},
   texts : [1..2 -> LeafTexts]]

LeafDocument(shape, texts) ==
  LET second == IF shape \in {"single", "nested"} THEN <<"w">> ELSE <<"v">>
      leaves == <<Leaf(<<"v">>, texts[1]), Leaf(second, texts[2])>>
  IN [kind |-> "xml",
      root |-> IF shape \in {"single", "repeated"} THEN Elem(<<"r">>, <<>>, leaves, <<>>)
               ELSE Elem(<<"r">>, <<>>, <<Elem(<<"g">>, <<>>, leaves, <<>>)>>, <<>>)]

\* xmlToJson(xml)
ParsesXml ==
  /\ fnIn.fn = "xmlToJson"
  /\ fnOut = Pending
  /\ fnOut' = xmlToJson(LeafDocument(fnIn.shape, fnIn.texts), TRUE)
  /\ UNCHANGED fnIn

\* ------------------------------------------------------------------------
\* XmlConverter.jsonToXml: prepareJsonForXml and the xml2js Builder
\* ------------------------------------------------------------------------
\* key.charAt(0).toUpperCase() + key.slice(1)
toXmlCase(key) == IF key = <<>> THEN key ELSE <<UpperOf(key[1])>> \o Tail(key)

\* the decimal digits of a natural number
RECURSIVE DigitsOf(_)
DigitsOf(n) == IF n < 10 THEN <<DigitChars[n + 1]>> ELSE DigitsOf(n \div 10) \o <<DigitChars[(n % 10) + 1]>>

\* value.toString() of a primitive; '' for null as the Builder writes it
toString(value) ==
  CASE value.t = "str" -> value.s
    [] value.t = "num" -> IF value.n < 0 THEN <<"-">> \o DigitsOf(0 - value.n) ELSE DigitsOf(value.n)
    [] value.t = "bool" -> IF value.b THEN <<"t", "r", "u", "e">> ELSE <<"f", "a", "l", "s", "e">>
    [] OTHER -> <<>>

\* XmlConverter.prepareJsonForXml
RECURSIVE prepareJsonForXml(_)
PreparedEntries(kv) ==
  LET kept == SelectSeq(kv, LAMBDA e : e.v.t \notin {"null", "undef"})
  IN [i \in 1..Len(kept) |->
        [k |-> toXmlCase(kept[i].k),
         v |-> IF kept[i].v.t = "arr"
                 THEN JArr([j \in 1..Len(kept[i].v.items) |-> prepareJsonForXml(kept[i].v.items[j])])
               ELSE IF kept[i].v.t = "obj" THEN prepareJsonForXml(kept[i].v)
               ELSE IF kept[i].v.t = "bool" THEN JStr(toString(kept[i].v))
               ELSE kept[i].v]]

prepareJsonForXml(data) ==
  IF data.t = "arr" THEN JArr([i \in 1..Len(data.items) |-> prepareJsonForXml(data.items[i])])
  ELSE IF data.t = "obj" THEN JObj(SpreadInto(<<>>, PreparedEntries(data.kv)))
  ELSE data

\* the concatenation of a sequence of sequences
RECURSIVE Flatten(_)
Flatten(seqs) == IF seqs = <<>> THEN <<>> ELSE seqs[1] \o Flatten(Tail(seqs))

\* xml2js Builder, render: the elements written for the entry key: child.
\* A sequence gives one element per item, also for a null item, whose
\* element is empty; an object gives an element with its entries as
\* children; a primitive gives an element with its text.
RECURSIVE Render(_, _)
Rendered(key, entry) ==
  IF entry.t = "obj"
    THEN Elem(key, <<>>, Flatten([i \in 1..Len(entry.kv) |-> Render(entry.kv[i].k, entry.kv[i].v)]), <<>>)
    ELSE Leaf(key, toString(entry))

Render(key, child) ==
  IF child.t = "arr" THEN [i \in 1..Len(child.items) |-> Rendered(key, child.items[i])]
  ELSE <<Rendered(key, child)>>

\* XmlConverter.jsonToXml(json, rootName = 'Request')
jsonToXml(json, rootName) ==
  [kind |-> "xml", root |-> Rendered(rootName, prepareJsonForXml(json))]

\* xmlToJson(xml), then xmlToJson(jsonToXml(v)) of its result v
RoundTrips ==
  /\ fnIn.fn = "roundTrip"
  /\ fnOut = Pending
  /\ LET v == xmlToJson(LeafDocument(fnIn.shape, fnIn.texts), TRUE).v
     IN fnOut' = Returns([v |-> v, again |-> xmlToJson(jsonToXml(v, <<"R", "e", "q", "u", "e", "s", "t">>), TRUE).v])
  /\ UNCHANGED fnIn

RoundTripInputs ==
  [fn : {"roundTrip"}, shape : {"single", "nested", "repeated", "both"},
   texts : [1..2 -> LeafTexts]]

\* ------------------------------------------------------------------------
\* SoapClient.buildRequestXml and valueToXml
\* ------------------------------------------------------------------------
\* the replacements of & < > " ' in a text
EscapeChar(ch) ==
  CASE ch = "&" -> <<"&", "a", "m", "p", ";">>
    [] ch = "<" -> <<"&", "l", "t", ";">>
    [] ch = ">" -> <<"&", "g", "t", ";">>
    [] ch = "\"" -> <<"&", "q", "u", "o", "t", ";">>
    [] ch = "'" -> <<"&", "a", "p", "o", "s", ";">>
    [] OTHER -> <<ch>>

EscapeXml(s) == Flatten([i \in 1..Len(s) |-> EscapeChar(s[i])])

\* SoapClient.valueToXml(key, value, 'ns'): the elements written
RECURSIVE valueToXml(_, _)
valueToXml(key, value) ==
  IF value.t \in {"null", "undef"} THEN <<>>
  ELSE IF value.t = "arr"
    THEN Flatten([i \in 1..Len(value.items) |-> valueToXml(key, value.items[i])])
  ELSE IF value.t = "obj"
    THEN <<Elem(<<"n", "s", ":">> \o key, <<>>,
                Flatten([i \in 1..Len(value.kv) |-> valueToXml(value.kv[i].k, value.kv[i].v)]), <<>>)>>
  ELSE <<Leaf(<<"n", "s", ":">> \o key, EscapeXml(toString(value)))>>

\* SoapClient.buildRequestXml(data, elementName, namespace)
buildRequestXml(data, elementName, namespace) ==
  [kind |-> "xml",
   root |-> Elem(<<"n", "s", ":">> \o elementName, <<[k |-> <<"x", "m", "l", "n", "s", ":", "n", "s">>, v |-> namespace]>>,
                 Flatten([i \in 1..Len(data.kv) |-> valueToXml(data.kv[i].k, data.kv[i].v)]), <<>>)]

\* the trees handed to the builders: null and undefined values as entries
\* at depth one and two, and null items in sequences of texts and of
\* mappings; one tree without any
E(k, v) == [k |-> k, v |-> v]
BuildTrees ==
  {JObj(<<E(<<"p", "r", "o", "d", "u", "c", "t", "I", "d">>, JStr(<<"A", "B", "C", "1", "2", "3">>)), E(<<"d", "e", "s", "c", "r", "i", "p", "t", "i", "o", "n">>, JNull), E(<<"c", "a", "t", "e", "g", "o", "r", "y">>, JUndef),
          E(<<"p", "r", "i", "c", "e">>, JNum(19))>>),
   JObj(<<E(<<"i", "t", "e", "m">>, JObj(<<E(<<"a">>, JNull), E(<<"b">>, JStr(<<"x", "&", "y">>))>>))>>),
   JObj(<<E(<<"i", "t", "e", "m", "s">>, JArr(<<JStr(<<"a">>), JNull, JStr(<<"b">>)>>))>>),
   JObj(<<E(<<"i", "t", "e", "m", "s">>, JArr(<<JObj(<<E(<<"a">>, JNull), E(<<"b">>, JBool(TRUE))>>), JObj(<<E(<<"a">>, JNum(1))>>)>>))>>),
   JObj(<<E(<<"g">>, JObj(<<E(<<"i", "t", "e", "m", "s">>, JArr(<<JNull, JObj(<<E(<<"a">>, JStr(<<"x">>))>>)>>))>>))>>),
   JObj(<<E(<<"a">>, JStr(<<"x">>)), E(<<"f", "l", "a", "g">>, JBool(FALSE)), E(<<"n">>, JNum(0))>>)}

BuildInputs == [fn : {"jsonToXml", "buildRequestXml"}, json : BuildTrees]

RequestNamespace == <<"u", "r", "n", ":", "p", "s">>

\* the builder named by fn applied to json
Built(fn, json) ==
  IF fn = "jsonToXml" THEN jsonToXml(json, <<"R", "e", "q", "u", "e", "s", "t">>)
  ELSE buildRequestXml(json, <<"G", "e", "t", "S", "t", "a", "t", "u", "s", "R", "e", "q", "u", "e", "s", "t">>, RequestNamespace)

\* converter.jsonToXml(json)
BuildsXml ==
  /\ fnIn.fn = "jsonToXml"
  /\ fnOut = Pending
  /\ fnOut' = Returns(Built(fnIn.fn, fnIn.json))
  /\ UNCHANGED fnIn

\* soapClient.buildRequestXml(json, elementName, namespace)
BuildsRequestXml ==
  /\ fnIn.fn = "buildRequestXml"
  /\ fnOut = Pending
  /\ fnOut' = Returns(Built(fnIn.fn, fnIn.json))
  /\ UNCHANGED fnIn

\* ------------------------------------------------------------------------
\* SoapClient.extractSoapFault on parsed responses
\* ------------------------------------------------------------------------
\* a fault element under another name
NamedFault(name) == [FaultElement(<<>>) EXCEPT !.name = name]

\* the responses: an envelope under each prefix whose Body holds nothing, a
\* response, a fault, both, or a fault whose name is written differently
FaultDocs ==
  UNION {{EnvelopeDoc(p, kids) :
            kids \in BodyContents(p) \cup {<<NamedFault(QName(p, <<"f", "a", "u", "l", "t">>))>>,
                                          <<NamedFault(<<"C", "l", "i", "e", "n", "t", "F", "a", "u", "l", "t">>)>>}} : p \in SoapPrefixes}

\* parsed is how the response was parsed: by xmlToJson, as SoapClient.call
\* does, or by the parser alone
FaultInputs == [fn : {"extractSoapFault"}, doc : FaultDocs, parsed : {"xmlToJson", "parser"}]

\* extractSoapFault(json) on the parsed response
ExtractsFault ==
  /\ fnIn.fn = "extractSoapFault"
  /\ fnOut = Pending
  /\ fnOut' = Returns(extractSoapFault(IF fnIn.parsed = "xmlToJson" THEN xmlToJson(fnIn.doc, TRUE).v
                                       ELSE ParseDocument(fnIn.doc, TRUE)))
  /\ UNCHANGED fnIn

\* ------------------------------------------------------------------------
\* SoapClient.call: the name of the request element
\* ------------------------------------------------------------------------
\* str.charAt(0).toUpperCase() + str.slice(1)
toPascalCase(str) == IF str = <<>> THEN str ELSE <<UpperOf(str[1])>> \o Tail(str)

\* part.element.match(/\}(.+)$/): what follows the first '}' that has
\* something after it (<<>> when there is no match)
AfterBrace(element) ==
  IF \E i \in 1..(Len(element) - 1) : element[i] = "}"
    THEN SubSeq(element, 1 + CHOOSE i \in 1..(Len(element) - 1) :
                               element[i] = "}" /\ \A j \in 1..(i - 1) : element[j] # "}",
                Len(element))
    ELSE <<>>

\* the loop over message.parts from its entry i on
RECURSIVE ElementOfParts(_, _)
ElementOfParts(parts, i) ==
  IF i > Len(parts) THEN Returns(JNull)
  ELSE LET part == parts[i].v
           element == Get(part, <<"e", "l", "e", "m", "e", "n", "t">>)
       IN IF part.t \in {"null", "undef"} THEN Throws("TypeError")
          ELSE IF ~JTruthy(element) THEN ElementOfParts(parts, i + 1)
          ELSE IF element.t # "str" THEN Throws("TypeError")
          ELSE IF AfterBrace(element.s) # <<>> THEN Returns(JStr(AfterBrace(element.s)))
          ELSE IF ~includes(element.s, <<"{">>) THEN Returns(element)
          ELSE ElementOfParts(parts, i + 1)

\* the try block of getElementNameFromWsdl: the name found, null, or the
\* TypeError of a property read on null or undefined
InspectWsdl(client, operation) ==
  LET definitions == Get(Get(client, <<"w", "s", "d", "l">>), <<"d", "e", "f", "i", "n", "i", "t", "i", "o", "n", "s">>)
      messages == Get(definitions, <<"m", "e", "s", "s", "a", "g", "e", "s">>)
      message == Get(messages, operation \o <<"R", "e", "q", "u", "e", "s", "t">>)
  IN IF definitions.t \in {"null", "undef"} \/ messages.t \in {"null", "undef"}
       THEN Throws("TypeError")
     ELSE IF JTruthy(message) /\ JTruthy(Get(message, <<"p", "a", "r", "t", "s">>))
       THEN ElementOfParts(Get(message, <<"p", "a", "r", "t", "s">>).kv, 1)
     ELSE Returns(JNull)

\* (variant of getElementNameFromWsdl without its try: what the inspection
\* throws reaches the caller)
getElementNameFromWsdl_NoCatch(client, operation) ==
  IF ~JTruthy(client) \/ ~JTruthy(Get(client, <<"w", "s", "d", "l">>)) THEN Returns(JNull)
  ELSE InspectWsdl(client, operation)

\* SoapClient.getElementNameFromWsdl(operation), this._client being client
getElementNameFromWsdl(client, operation) ==
  IF ~JTruthy(client) \/ ~JTruthy(Get(client, <<"w", "s", "d", "l">>)) THEN Returns(JNull)
  ELSE IF InspectWsdl(client, operation).threw THEN Returns(JNull)
  ELSE InspectWsdl(client, operation)

\* options.elementName || this.getElementNameFromWsdl(operation) ||
\* this.toPascalCase(operation) + 'Request'
requestElementName(elementName, client, operation) ==
  IF JTruthy(elementName) THEN Returns(elementName)
  ELSE IF getElementNameFromWsdl(client, operation).threw
    THEN getElementNameFromWsdl(client, operation)
  ELSE Returns(JOr(getElementNameFromWsdl(client, operation).v,
                   JStr(toPascalCase(operation) \o <<"R", "e", "q", "u", "e", "s", "t">>)))

\* a client whose parsed WSDL is wsdl
ClientOf(wsdl) == JObj(<<E(<<"w", "s", "d", "l">>, wsdl)>>)

\* a parsed WSDL whose message getInventoryLevelsRequest is message
WsdlOf(message) ==
  JObj(<<E(<<"d", "e", "f", "i", "n", "i", "t", "i", "o", "n", "s">>, JObj(<<E(<<"m", "e", "s", "s", "a", "g", "e", "s">>,
         JObj(<<E(<<"g", "e", "t", "I", "n", "v", "e", "n", "t", "o", "r", "y", "L", "e", "v", "e", "l", "s", "R", "e", "q", "u", "e", "s", "t">>, message)>>))>>))>>)

PartsOf(parts) == JObj(<<E(<<"p", "a", "r", "t", "s">>, JObj(parts))>>)
Part(name, element) == E(name, JObj(<<E(<<"n", "a", "m", "e">>, JStr(name)), E(<<"e", "l", "e", "m", "e", "n", "t">>, element)>>))

\* the clients, each with the element name that its WSDL declares for the
\* input message of getInventoryLevels (null: none): no client, no WSDL,
\* shapes that the inspection does not expect, and messages with one and
\* two parts
InspectedClients ==
  {[client |-> JNull, declares |-> JNull],
   [client |-> ClientOf(JUndef), declares |-> JNull],
   [client |-> ClientOf(JObj(<<>>)), declares |-> JNull],
   [client |-> ClientOf(JObj(<<E(<<"d", "e", "f", "i", "n", "i", "t", "i", "o", "n", "s">>, JObj(<<>>))>>)), declares |-> JNull],
   [client |-> ClientOf(JObj(<<E(<<"d", "e", "f", "i", "n", "i", "t", "i", "o", "n", "s">>, JObj(<<E(<<"m", "e", "s", "s", "a", "g", "e", "s">>, JObj(<<>>))>>))>>)),
    declares |-> JNull],
   [client |-> ClientOf(WsdlOf(JObj(<<>>))), declares |-> JNull],
   [client |-> ClientOf(WsdlOf(PartsOf(<<E(<<"p", "a", "r", "a", "m", "e", "t", "e", "r", "s">>, JNull)>>))), declares |-> JNull],
   [client |-> ClientOf(WsdlOf(PartsOf(<<Part(<<"p", "a", "r", "a", "m", "e", "t", "e", "r", "s">>, JNum(42))>>))), declares |-> JNull],
   [client |-> ClientOf(WsdlOf(PartsOf(<<Part(<<"p", "a", "r", "a", "m", "e", "t", "e", "r", "s">>, JStr(<<"{", "u", "r", "n", ":", "p", "s", "}", "R", "e", "q", "u", "e", "s", "t">>))>>))),
    declares |-> JStr(<<"R", "e", "q", "u", "e", "s", "t">>)],
   [client |-> ClientOf(WsdlOf(PartsOf(<<Part(<<"p", "a", "r", "a", "m", "e", "t", "e", "r", "s">>, JStr(<<"I", "n", "v", "e", "n", "t", "o", "r", "y", "R", "e", "q", "u", "e", "s", "t">>))>>))),
    declares |-> JStr(<<"I", "n", "v", "e", "n", "t", "o", "r", "y", "R", "e", "q", "u", "e", "s", "t">>)],
   [client |-> ClientOf(WsdlOf(PartsOf(<<E(<<"h", "e", "a", "d", "e", "r">>, JObj(<<E(<<"n", "a", "m", "e">>, JStr(<<"h", "e", "a", "d", "e", "r">>))>>)),
                                         Part(<<"p", "a", "r", "a", "m", "e", "t", "e", "r", "s">>, JStr(<<"{", "u", "r", "n", ":", "p", "s", "}", "R", "e", "q", "u", "e", "s", "t">>))>>))),
    declares |-> JStr(<<"R", "e", "q", "u", "e", "s", "t">>)],
   [client |-> ClientOf(WsdlOf(PartsOf(<<Part(<<"p", "a", "r", "a", "m", "e", "t", "e", "r", "s">>, JStr(<<"{", "u", "r", "n", ":", "p", "s">>))>>))),
    declares |-> JNull]}

ElementNameInputs ==
  [fn : {"requestElementName"}, elementName : {JUndef, JStr(<<>>), JStr(<<"R", "e", "q", "u", "e", "s", "t">>)},
   inspected : InspectedClients, operation : {<<"g", "e", "t", "I", "n", "v", "e", "n", "t", "o", "r", "y", "L", "e", "v", "e", "l", "s">>, <<"g", "e", "t", "S", "t", "a", "t", "u", "s">>}]

\* the first statement of the try of SoapClient.call that uses the
\* element name
NamesRequestElement ==
  /\ fnIn.fn = "requestElementName"
  /\ fnOut = Pending
  /\ fnOut' = requestElementName(fnIn.elementName, fnIn.inspected.client, fnIn.operation)
  /\ UNCHANGED fnIn

\* ========================================================================
\* PromoStandardsClient: services created with a WSDL given directly
\* ========================================================================
MaxDirectCalls == 3    \* client.inventory(wsdl, options) calls (SpecClient)

\* the auth object made of credentials: what the constructor throws, or
\* its id and password
NewAuth(credentials) ==
  IF validateCredentials(credentials).threw THEN validateCredentials(credentials)
  ELSE Returns([id |-> JOr(credentials.id, credentials.username), password |-> credentials.password])

\* BaseService.createAuth(options) for the options addService passes:
\* options.auth when it is an auth object, otherwise an auth object made
\* of options.id || options.username and options.password
ServiceAuth(auth, options) ==
  IF auth # JNull THEN Returns(auth)
  ELSE NewAuth([id |-> JOr(JUndef, options.username), username |-> JUndef,
                password |-> options.password])

\* the key of the service
DirectKey(service, wsdl) == [service |-> service, wsdl |-> wsdl]

\* the services Map without an entry for key
Without(services, key) == {e \in services : e.key # key}

\* a client-level auth object, the WSDLs and the per-call options
ClientAuths == {JNull, [id |-> JStr(<<"c", "l", "i", "e", "n", "t">>), password |-> JStr(<<"c", "p", "w">>)]}
DirectWsdls == {"w1", "w2"}
DirectOptions ==
  {[username |-> JStr(<<"a", "l", "i", "c", "e">>), password |-> JStr(<<"p", "a">>)],
   [username |-> JStr(<<"b", "o", "b">>), password |-> JStr(<<"p", "b">>)],
   [username |-> JUndef, password |-> JUndef]}

IdleClient ==
  [n |-> 0, wsdl |-> NULL, options |-> [username |-> JUndef, password |-> JUndef], out |-> Pending]

\* client.inventory(wsdl, options): _createDirectService and, for a key
\* that is not in this.services, addService, which builds the service
\* with { ...this.defaultOptions, ...config, auth: this.auth }
DirectService(wsdl, options) ==
  LET key == DirectKey("inventory", wsdl)
      given == JTruthy(options.username) \/ JTruthy(options.password)
      own == NewAuth([id |-> options.username, username |-> JUndef, password |-> options.password])
      made == ServiceAuth(clAuth, options)
      c == [n |-> clCall.n + 1, wsdl |-> wsdl, options |-> options, out |-> Pending]
  IN /\ clCall.n < MaxDirectCalls
     /\ IF \E e \in clServices : e.key = key
          THEN /\ clServices' = clServices
               /\ clCall' = [c EXCEPT !.out = Returns((CHOOSE e \in clServices : e.key = key).auth)]
        ELSE IF given /\ own.threw
          THEN /\ clServices' = clServices
               /\ clCall' = [c EXCEPT !.out = own]
        ELSE IF ~given /\ clAuth = JNull
          THEN /\ clServices' = clServices
               /\ clCall' = [c EXCEPT !.out = Throws(DetailedError("ValidationError",
                                Lit("Credentials required. Provide username/password in options or configure client-level auth."),
                                [method |-> "inventory"]))]
        ELSE IF made.threw
          THEN /\ clServices' = clServices
               /\ clCall' = [c EXCEPT !.out = made]
        ELSE /\ clServices' = Without(clServices, key) \cup {[key |-> key, auth |-> made.v]}
             /\ clCall' = [c EXCEPT !.out = Returns(made.v)]
     /\ UNCHANGED clAuth

\* ========================================================================
\* One service instance under concurrent call() and initialize():
\* BaseService.ensureWsdlResolved and SoapClient.initialize
\* ========================================================================
MaxInitCalls == 3      \* concurrent call()/initialize() invocations (SpecInit)

\* call() and initialize() begin with `await this.ensureWsdlResolved()`:
\* with a client it returns at once, otherwise it awaits
\* this.wsdlProvider.resolve()
InvocationBegins(c) ==
  /\ inCallers[c].pc = "idle"
  /\ inCallers' = [inCallers EXCEPT ![c].pc = IF inClient # 0 THEN "ensured" ELSE "resolving"]
  /\ UNCHANGED <<inLazy, inClient, inReady>>

\* ensureWsdlResolved after `await this.wsdlProvider.resolve()`: a
\* rejection ends the invocation, otherwise
\* `this.client = new SoapClient(...)`
ResolveSettles(c, ok) ==
  /\ inCallers[c].pc = "resolving"
  /\ IF ok
       THEN /\ inClient' = inClient + 1
            /\ inCallers' = [inCallers EXCEPT ![c].pc = "ensured"]
       ELSE /\ inClient' = inClient
            /\ inCallers' = [inCallers EXCEPT ![c].pc = "failed"]
  /\ UNCHANGED <<inLazy, inReady>>

\* SoapClient.initialize() on this.client up to
\* `await soap.createClientAsync(this.wsdl, options)`: with _client set it
\* returns at once
InitializeBegins(c) ==
  /\ inCallers[c].pc = "ensured"
  /\ inCallers' = [inCallers EXCEPT ![c] =
       [pc |-> IF inClient \in inReady THEN "done" ELSE "creating", on |-> inClient]]
  /\ UNCHANGED <<inLazy, inClient, inReady>>

\* soap.createClientAsync settles: `this._client = ...`, or the
\* SOAP_INIT_ERROR
CreateSettles(c, ok) ==
  /\ inCallers[c].pc = "creating"
  /\ IF ok
       THEN /\ inReady' = inReady \cup {inCallers[c].on}
            /\ inCallers' = [inCallers EXCEPT ![c].pc = "done"]
       ELSE /\ inReady' = inReady
            /\ inCallers' = [inCallers EXCEPT ![c].pc = "failed"]
  /\ UNCHANGED <<inLazy, inClient>>

\* ========================================================================
\* PromoStandardsAuth: construction and updateCredentials
\* ========================================================================
MaxUpdates == 2        \* updateCredentials calls on the auth object (SpecAuth)

\* the credentials of the calls; undefined stands for a key that is not
\* given
CredentialInputs ==
  [id : {JUndef, Filled(0), Filled(MaxCredentialLength), Filled(MaxCredentialLength + 1)},
   username : {JUndef, Filled(1), Filled(MaxCredentialLength + 1)},
   password : {JUndef, Filled(MaxCredentialLength), Filled(MaxCredentialLength + 1)},
   wsVersion : {JUndef, JStr(<<"2", ".", "0", ".", "0">>)}]

\* { ...this.getCredentials(), ...newCredentials }
MergedCredentials(a, new) ==
  [id |-> IF new.id # JUndef THEN new.id ELSE a.id,
   username |-> new.username,
   password |-> IF new.password # JUndef THEN new.password ELSE a.password,
   wsVersion |-> IF new.wsVersion # JUndef THEN new.wsVersion ELSE a.wsVersion]

\* new PromoStandardsAuth(credentials)
AuthConstructed(credentials) ==
  /\ authState = JNull
  /\ authCall.n = 0
  /\ IF validateCredentials(credentials).threw
       THEN /\ authState' = authState
            /\ authCall' = [n |-> 1, op |-> "new", arg |-> credentials,
                            out |-> validateCredentials(credentials)]
       ELSE /\ authState' = [id |-> JOr(credentials.id, credentials.username),
                        password |-> credentials.password,
                        wsVersion |-> credentials.wsVersion]
            /\ authCall' = [n |-> 1, op |-> "new", arg |-> credentials, out |-> Returns(JUndef)]

\* authState.updateCredentials(newCredentials)
updateCredentials(newCredentials) ==
  /\ authState # JNull
  /\ authCall.n <= MaxUpdates
  /\ IF validateCredentials(MergedCredentials(authState, newCredentials)).threw
       THEN /\ authState' = authState
            /\ authCall' = [n |-> authCall.n + 1, op |-> "update", arg |-> newCredentials,
                            out |-> validateCredentials(MergedCredentials(authState, newCredentials))]
       ELSE /\ authState' =
                 [id |-> IF JTruthy(newCredentials.id) \/ JTruthy(newCredentials.username)
                           THEN JOr(newCredentials.id, newCredentials.username) ELSE authState.id,
                  password |-> IF newCredentials.password # JUndef
                                 THEN newCredentials.password ELSE authState.password,
                  wsVersion |-> IF newCredentials.wsVersion # JUndef
                                  THEN newCredentials.wsVersion ELSE authState.wsVersion]
            /\ authCall' = [n |-> authCall.n + 1, op |-> "update", arg |-> newCredentials,
                            out |-> Returns(JUndef)]

\* ------------------------------------------------------------------------
\* compareVersions as an ordering
\* ------------------------------------------------------------------------
\* the version a descriptor carries: a text, or none when the API's entry
\* has no version field
VersionValues == {JUndef} \cup {JStr(v) : v \in VersionTexts}

\* three versions to compare and to sort
OrderingInputs ==
  [fn : {"compareVersions"}, a : VersionValues, b : VersionValues, c : VersionValues]

\* a descriptor with that version
Descriptor(version) == JObj(<<[k |-> <<"v", "e", "r", "s", "i", "o", "n">>, v |-> version]>>)

\* the version of the first descriptor after
\* list.sort((a, b) => this.compareVersions(b.version, a.version))
LatestOf(list) == Get(sortLatestFirst(list)[1], <<"v", "e", "r", "s", "i", "o", "n">>)

\* compareVersions on the pairs of three versions, and the latest of their
\* descriptors listed in both directions
ComparesVersions ==
  /\ fnIn.fn = "compareVersions"
  /\ fnOut = Pending
  /\ fnOut' = Returns([ab |-> compareVersions(fnIn.a, fnIn.b),
                       ba |-> compareVersions(fnIn.b, fnIn.a),
                       bc |-> compareVersions(fnIn.b, fnIn.c),
                       ac |-> compareVersions(fnIn.a, fnIn.c),
                       latest |-> LatestOf(<<Descriptor(fnIn.a), Descriptor(fnIn.b), Descriptor(fnIn.c)>>),
                       latestReversed |-> LatestOf(<<Descriptor(fnIn.c), Descriptor(fnIn.b), Descriptor(fnIn.a)>>)])
  /\ UNCHANGED fnIn

\* ========================================================================
\* Specifications
\* ========================================================================
\* An auth object and a call() that are not used
UnusedCall ==
  /\ authCreds = [id |-> "user", password |-> "secret", includePassword |-> TRUE]
  /\ soapClientReady = FALSE
  /\ call = IdleCall

\* A cache that is not used
UnusedCache ==
  /\ cacheOn = FALSE
  /\ cacheTTL = 1
  /\ cacheStore = {}
  /\ now = 0
  /\ ccall = IdleCachedCall

\* A discovery client that is not used
UnusedDiscovery ==
  /\ osTTL = 1
  /\ osStore = {}
  /\ osCall = IdleRead

\* No function applied
UnusedFunctions ==
  /\ fnIn = NULL
  /\ fnOut = NULL

\* A client that is not used
UnusedClient ==
  /\ clAuth = NULL
  /\ clServices = {}
  /\ clCall = NULL

\* A service without concurrent invocations
UnusedInit ==
  /\ inLazy = FALSE
  /\ inClient = 0
  /\ inReady = {}
  /\ inCallers = <<>>

\* No auth object of its own
UnusedAuth ==
  /\ authState = NULL
  /\ authCall = NULL

UnusedMore ==
  /\ UnusedClient
  /\ UnusedInit
  /\ UnusedAuth

\* The parts of the program a specification leaves out
UnusedLater ==
  /\ UnusedCache
  /\ UnusedDiscovery
  /\ UnusedFunctions
  /\ UnusedMore

\* A service that is not used: built on a static WSDL
UnusedServiceOptions ==
  [wsdl |-> "ws", wsdlProvider |-> FALSE, version |-> NULL, defaultVersion |-> "2.0.0",
   endpoint |-> NULL, authInstance |-> TRUE, authVersion |-> NULL]

\* Spec: one WSDLProvider and the resolve() calls made on it
Init ==
  /\ InitProvider
  /\ InitService
  /\ svcOpts = UnusedServiceOptions
  /\ UnusedCall
  /\ UnusedLater

Next ==
  \/ \E c \in 1..MaxCallers : Resolve(c) /\ UNCHANGED <<callVars, laterVars>>
  \/ \E p \in 1..MaxAttempts, d \in Descriptors : UpstreamSucceeds(p, d) /\ UNCHANGED <<callVars, laterVars>>
  \/ \E p \in 1..MaxAttempts, code \in UpstreamErrorCodes : UpstreamFails(p, code) /\ UNCHANGED <<callVars, laterVars>>
  \/ \E c \in 1..MaxCallers : LeaderContinues(c) /\ UNCHANGED <<callVars, laterVars>>
  \/ \E c \in 1..MaxCallers : FollowerSettles(c) /\ UNCHANGED <<callVars, laterVars>>

Spec == Init /\ [][Next]_vars

\* SpecService: one service and the provider it was constructed with (or
\* its static WSDL), and the ensureWsdlResolved() calls made by call(),
\* initialize() and getAvailableOperations()
InitSvc ==
  /\ InitProvider
  /\ InitService
  /\ IF svcOpts.wsdlProvider
       THEN Truthy(provCfg.staticWsdl) \/ HasUpstream(provCfg)
       ELSE Truthy(provCfg.staticWsdl)   \* no provider: this one is never used

NextSvc ==
  \/ \E c \in 1..MaxEnsureCalls : EnsureWsdlResolved(c) /\ UNCHANGED <<callVars, laterVars>>
  \/ \E p \in 1..MaxAttempts, d \in Descriptors : UpstreamSucceeds(p, d) /\ UNCHANGED <<callVars, laterVars>>
  \/ \E p \in 1..MaxAttempts, code \in UpstreamErrorCodes : UpstreamFails(p, code) /\ UNCHANGED <<callVars, laterVars>>
  \/ \E c \in 1..MaxEnsureCalls : LeaderContinues(c) /\ UNCHANGED <<callVars, laterVars>>
  \/ \E c \in 1..MaxEnsureCalls : FollowerSettles(c) /\ UNCHANGED <<callVars, laterVars>>
  \/ \E c \in 1..MaxEnsureCalls : EnsureContinues(c) /\ UNCHANGED <<callVars, laterVars>>

InitSvcOnly ==
  /\ InitSvc
  /\ UnusedCall
  /\ UnusedLater

SpecService == InitSvcOnly /\ [][NextSvc]_vars

\* SpecCall: one service as PromoStandardsClient builds it, with the
\* client's auth object: on a static WSDL (_createDirectService), or on a
\* provider made by WSDLProvider.fromSupplier with the version option of
\* the service (_createLazyService); and one call() on it through
\* SoapClient and the transport
InitCall ==
  /\ InitProvider
  /\ InitService
  /\ svcOpts.authInstance
  /\ svcOpts.authVersion = NULL
  /\ IF svcOpts.wsdlProvider
       THEN provCfg = [staticWsdl |-> NULL, customResolver |-> FALSE, onesource |-> TRUE,
                       supplierId |-> "sup", serviceName |-> "inventory",
                       version |-> svcOpts.version]
       ELSE provCfg = [staticWsdl |-> "w0", customResolver |-> FALSE, onesource |-> FALSE,
                       supplierId |-> NULL, serviceName |-> NULL, version |-> NULL]
  /\ authCreds \in Credentials
  /\ soapClientReady = FALSE
  /\ call = IdleCall
  /\ UnusedLater

NextCall ==
  \/ \E operation \in Operations, data \in Payloads, includeRaw \in BOOLEAN :
       CallBegins(operation, data, includeRaw) /\ UNCHANGED laterVars
  \/ \E p \in 1..MaxAttempts, d \in Descriptors : UpstreamSucceeds(p, d) /\ UNCHANGED <<callVars, laterVars>>
  \/ \E p \in 1..MaxAttempts, code \in UpstreamErrorCodes :
       UpstreamFails(p, code) /\ UNCHANGED <<callVars, laterVars>>
  \/ LeaderContinues(1) /\ UNCHANGED <<callVars, laterVars>>
  \/ EnsureContinues(1) /\ UNCHANGED <<callVars, laterVars>>
  \/ CallInjectsAuth /\ UNCHANGED laterVars
  \/ \E ok \in BOOLEAN : SoapInitializes(ok) /\ UNCHANGED laterVars
  \/ \E reply \in Replies : PostSettles(reply) /\ UNCHANGED laterVars

SpecCall == InitCall /\ [][NextCall]_vars

\* SpecCache: one service built on a static WSDL, with or without a cache
\* collaborator (options.cache, options.cacheTTL), whose SoapClient is
\* initialized; the call()s made on it one after the other; and the clock.
\* The collaborator is a Map-like store that may already hold a string
\* that is no JSON.
InitCache ==
  /\ InitProvider
  /\ provCfg = [staticWsdl |-> "w0", customResolver |-> FALSE, onesource |-> FALSE,
                supplierId |-> NULL, serviceName |-> NULL, version |-> NULL]
  /\ InitService
  /\ svcOpts = UnusedServiceOptions
  /\ authCreds = [id |-> "user", password |-> "secret", includePassword |-> TRUE]
  /\ soapClientReady = TRUE
  /\ call = IdleCall
  /\ cacheOn \in BOOLEAN
  /\ cacheTTL \in 1..MaxTTL
  /\ cacheStore \in {{}, {[key |-> getCacheKey("getStatus", JNull), value |-> CorruptData]}}
  /\ now = 0
  /\ ccall = IdleCachedCall
  /\ UnusedDiscovery
  /\ UnusedFunctions
  /\ UnusedMore

NextCache ==
  \/ \E operation \in CachedOperations, data \in CachedPayloads, noCache \in BOOLEAN :
       CachedCallBegins(operation, data, noCache) /\ UNCHANGED <<provVars, svcVars, callVars, osVars, fnVars, moreVars>>
  \/ \E throws \in BOOLEAN : CacheGetSettles(throws) /\ UNCHANGED <<provVars, svcVars, callVars, osVars, fnVars, moreVars>>
  \/ \E throws \in BOOLEAN : CacheDeleteSettles(throws) /\ UNCHANGED <<provVars, svcVars, callVars, osVars, fnVars, moreVars>>
  \/ \E reply \in CachedReplies : ClientCallSettles(reply) /\ UNCHANGED <<provVars, svcVars, callVars, osVars, fnVars, moreVars>>
  \/ \E throws \in BOOLEAN : CacheSetSettles(throws) /\ UNCHANGED <<provVars, svcVars, callVars, osVars, fnVars, moreVars>>
  \/ Tick /\ UNCHANGED <<provVars, svcVars, callVars, osVars, fnVars, moreVars>>

SpecCache == InitCache /\ [][NextCache]_vars

\* SpecDiscovery: one OneSourceClient, the reads made on it one after the
\* other, clearCache() at any moment, the replies of the discovery API,
\* and the clock
InitDiscovery ==
  /\ InitProvider
  /\ provCfg = [staticWsdl |-> "w0", customResolver |-> FALSE, onesource |-> FALSE,
                supplierId |-> NULL, serviceName |-> NULL, version |-> NULL]
  /\ InitService
  /\ svcOpts = UnusedServiceOptions
  /\ UnusedCall
  /\ cacheOn = FALSE /\ cacheTTL = 1 /\ cacheStore = {} /\ ccall = IdleCachedCall
  /\ now = 0
  /\ osTTL \in {1, MaxTTL}
  /\ osStore = {}
  /\ osCall = IdleRead
  /\ UnusedFunctions
  /\ UnusedMore

NextDiscovery ==
  \/ \E req \in DiscoveryRequests : DiscoveryBegins(req) /\ UNCHANGED otherThanDiscovery
  \/ \E reply \in UNION {DiscoveryReplies(op) : op \in {"getSuppliers", "getSupplier", "getSupplierEndpoints"}} :
       DiscoveryFetchSettles(reply) /\ UNCHANGED otherThanDiscovery
  \/ clearCache /\ UNCHANGED otherThanDiscovery
  \/ Tick /\ UNCHANGED <<provVars, svcVars, callVars, osVars, fnVars, moreVars>>

SpecDiscovery == InitDiscovery /\ [][NextDiscovery]_vars

\* SpecFunctions: one function of the library applied to one input
InitFunctions ==
  /\ InitProvider
  /\ provCfg = [staticWsdl |-> "w0", customResolver |-> FALSE, onesource |-> FALSE,
                supplierId |-> NULL, serviceName |-> NULL, version |-> NULL]
  /\ InitService
  /\ svcOpts = UnusedServiceOptions
  /\ UnusedCall
  /\ UnusedCache
  /\ UnusedDiscovery
  /\ fnIn \in LatestInputs \cup AuthInputs \cup ServiceInputs \cup XmlInputs
                 \cup RoundTripInputs
                 \cup BuildInputs
                 \cup FaultInputs
                 \cup ElementNameInputs
                 \cup OrderingInputs
  /\ fnOut = Pending
  /\ UnusedMore

NextFunctions ==
  \/ SelectsLatest /\ UNCHANGED <<provVars, svcVars, callVars, cacheVars, osVars, moreVars>>
  \/ ConstructsAuth /\ UNCHANGED <<provVars, svcVars, callVars, cacheVars, osVars, moreVars>>
  \/ ConstructsService /\ UNCHANGED <<provVars, svcVars, callVars, cacheVars, osVars, moreVars>>
  \/ ParsesXml /\ UNCHANGED <<provVars, svcVars, callVars, cacheVars, osVars, moreVars>>
  \/ RoundTrips /\ UNCHANGED <<provVars, svcVars, callVars, cacheVars, osVars, moreVars>>
  \/ BuildsXml /\ UNCHANGED <<provVars, svcVars, callVars, cacheVars, osVars, moreVars>>
  \/ BuildsRequestXml /\ UNCHANGED <<provVars, svcVars, callVars, cacheVars, osVars, moreVars>>
  \/ ExtractsFault /\ UNCHANGED <<provVars, svcVars, callVars, cacheVars, osVars, moreVars>>
  \/ NamesRequestElement /\ UNCHANGED <<provVars, svcVars, callVars, cacheVars, osVars, moreVars>>
  \/ ComparesVersions /\ UNCHANGED <<provVars, svcVars, callVars, cacheVars, osVars, moreVars>>

SpecFunctions == InitFunctions /\ [][NextFunctions]_vars

\* ------------------------------------------------------------------------
\* SpecInit: one service, static or lazily resolved, and MaxInitCalls
\* invocations of call() or initialize() that may overlap
\* ------------------------------------------------------------------------
InitInit ==
  /\ InitProvider
  /\ provCfg = [staticWsdl |-> "w0", customResolver |-> FALSE, onesource |-> FALSE,
                supplierId |-> NULL, serviceName |-> NULL, version |-> NULL]
  /\ InitService
  /\ svcOpts = UnusedServiceOptions
  /\ UnusedCall
  /\ UnusedCache
  /\ UnusedDiscovery
  /\ UnusedFunctions
  /\ UnusedClient
  /\ UnusedAuth
  /\ inLazy \in BOOLEAN
  /\ inClient = IF inLazy THEN 0 ELSE 1
  /\ inReady = {}
  /\ inCallers = [c \in 1..MaxInitCalls |-> [pc |-> "idle", on |-> 0]]

NextInit ==
  \/ \E c \in 1..MaxInitCalls : InvocationBegins(c)
       /\ UNCHANGED <<provVars, svcVars, callVars, cacheVars, osVars, fnVars, clientVars, authVars>>
  \/ \E c \in 1..MaxInitCalls, ok \in BOOLEAN : ResolveSettles(c, ok)
       /\ UNCHANGED <<provVars, svcVars, callVars, cacheVars, osVars, fnVars, clientVars, authVars>>
  \/ \E c \in 1..MaxInitCalls : InitializeBegins(c)
       /\ UNCHANGED <<provVars, svcVars, callVars, cacheVars, osVars, fnVars, clientVars, authVars>>
  \/ \E c \in 1..MaxInitCalls, ok \in BOOLEAN : CreateSettles(c, ok)
       /\ UNCHANGED <<provVars, svcVars, callVars, cacheVars, osVars, fnVars, clientVars, authVars>>

SpecInit == InitInit /\ [][NextInit]_vars

\* ------------------------------------------------------------------------
\* SpecAuth: one auth object, constructed and then updated
\* ------------------------------------------------------------------------
InitAuth ==
  /\ InitProvider
  /\ provCfg = [staticWsdl |-> "w0", customResolver |-> FALSE, onesource |-> FALSE,
                supplierId |-> NULL, serviceName |-> NULL, version |-> NULL]
  /\ InitService
  /\ svcOpts = UnusedServiceOptions
  /\ UnusedCall
  /\ UnusedCache
  /\ UnusedDiscovery
  /\ UnusedFunctions
  /\ UnusedClient
  /\ UnusedInit
  /\ authState = JNull
  /\ authCall = [n |-> 0, op |-> "none", arg |-> JUndef, out |-> Pending]

NextAuth ==
  \/ \E credentials \in CredentialInputs : AuthConstructed(credentials)
       /\ UNCHANGED <<provVars, svcVars, callVars, cacheVars, osVars, fnVars, clientVars, initVars>>
  \/ \E newCredentials \in CredentialInputs : updateCredentials(newCredentials)
       /\ UNCHANGED <<provVars, svcVars, callVars, cacheVars, osVars, fnVars, clientVars, initVars>>

SpecAuth == InitAuth /\ [][NextAuth]_vars

\* ------------------------------------------------------------------------
\* SpecClient: one PromoStandardsClient, with or without client-level
\* auth, asked for inventory services
\* ------------------------------------------------------------------------
InitClient ==
  /\ InitProvider
  /\ provCfg = [staticWsdl |-> "w0", customResolver |-> FALSE, onesource |-> FALSE,
                supplierId |-> NULL, serviceName |-> NULL, version |-> NULL]
  /\ InitService
  /\ svcOpts = UnusedServiceOptions
  /\ UnusedCall
  /\ UnusedCache
  /\ UnusedDiscovery
  /\ UnusedFunctions
  /\ clAuth \in ClientAuths
  /\ clServices = {}
  /\ clCall = IdleClient
  /\ UnusedInit
  /\ UnusedAuth

NextClient ==
  \/ \E wsdl \in DirectWsdls, options \in DirectOptions :
       DirectService(wsdl, options)
         /\ UNCHANGED <<provVars, svcVars, callVars, cacheVars, osVars, fnVars, initVars, authVars>>

SpecClient == InitClient /\ [][NextClient]_vars

\* ========================================================================
\* Properties of WSDLProvider (Spec)
\* ========================================================================
CallerIds == DOMAIN callers
AttemptIds == 1..MaxAttempts

\* the calls issued while attempt p occupied the in-flight slot
Joined(p) == {c \in CallerIds : callers[c].pc # "idle" /\ callers[c].p = p}

\* the provider has a resolution strategy, stated on its options
Configured ==
  \/ provCfg.customResolver
  \/ (provCfg.onesource /\ provCfg.supplierId # NULL /\ provCfg.serviceName # NULL)

\* C1: single flight.  At most one upstream resolution is in flight; the
\* calls issued while an attempt occupies the slot cause exactly one
\* upstream invocation (one per attempt, however many calls joined it), and
\* every one of them that has settled settled with that attempt's outcome.
C1_SingleFlight ==
  /\ Cardinality({p \in AttemptIds : promises[p].state = "pending"}) <= 1
  /\ upstreamCalls =
       (IF Configured THEN Cardinality({p \in AttemptIds : Joined(p) # {}}) ELSE 0)
  /\ \A p \in AttemptIds : \A c \in Joined(p) :
       callers[c].pc = "done" =>
         /\ Settled(p)
         /\ callers[c].out = promises[p].out
         /\ (~callers[c].out.ok => callers[c].out.err.id = p)

\* C1 witness: three calls joined the first attempt, the upstream was
\* invoked once, and all three were rejected with that attempt's error
C1_Witness ==
  /\ upstreamCalls = 1
  /\ Cardinality(Joined(1)) >= 3
  /\ \A c \in Joined(1) : callers[c].pc = "done" /\ ~callers[c].out.ok
                            /\ callers[c].out.err = UpstreamError("NETWORK_ERROR", 1)

\* C1 witness (success): two calls joined one attempt and got its descriptor
C1_WitnessFulfilled ==
  \E c1, c2 \in Joined(1) :
    /\ c1 # c2 /\ upstreamCalls = 1
    /\ callers[c1].pc = "done" /\ callers[c2].pc = "done"
    /\ callers[c1].out.ok /\ callers[c1].out = callers[c2].out

\* a failure of attempt p is delivered to caller c in this step
FailureDelivered(c, p) ==
  /\ callers[c].pc \in {"leader", "follower"}
  /\ callers[c].p = p
  /\ callers'[c].pc = "done"
  /\ ~callers'[c].out.ok

\* a resolve() call by c happens in this step
Calls(c) == callers[c].pc = "idle" /\ callers'[c].pc # "idle"

\* C2: failures are not cached.  When the failure of an attempt is
\* delivered the failed promise no longer occupies the slot and the
\* provider is unresolved (for the call that made the attempt the slot is
\* empty); a resolve() made on an unresolved provider with an empty slot
\* after a failed attempt starts a fresh attempt and invokes the upstream
\* again; and a success of that later attempt is stored in the cache fields.
C2_FailureNotCached ==
  [][ /\ \A c \in CallerIds : \A p \in AttemptIds :
           FailureDelivered(c, p) =>
             /\ resolving' # p
             /\ (callers[c].pc = "leader" => resolving' = 0 /\ resolvedWsdl' = NULL)
      /\ \A c \in CallerIds :
           ( /\ Calls(c)
             /\ nAttempts > 0 /\ resolving = 0 /\ resolvedWsdl = NULL
             /\ provCfg.staticWsdl = NULL
             /\ promises[nAttempts].state = "rejected" )
           => /\ callers'[c].pc = "leader"
              /\ callers'[c].p = nAttempts + 1
              /\ nAttempts' = nAttempts + 1
              /\ (Configured => upstreamCalls' = upstreamCalls + 1
                                  /\ promises'[nAttempts + 1].state = "pending")
      /\ \A p \in AttemptIds :
           ( /\ p > 1
             /\ promises[p - 1].state = "rejected"
             /\ promises[p].state = "pending"
             /\ promises'[p].state = "fulfilled" )
           => /\ resolvedWsdl' = promises'[p].out.desc.wsdl
              /\ resolvedEndpoint' = promises'[p].out.desc.endpoint
              /\ resolvedVersion' = promises'[p].out.desc.version
    ]_vars

\* C2 witness: the first attempt failed and its failure was delivered, a
\* later call made a second attempt, which succeeded and is cached
C2_Witness ==
  /\ nAttempts = 2
  /\ promises[1].state = "rejected" /\ promises[2].state = "fulfilled"
  /\ upstreamCalls = 2
  /\ \E c \in Joined(1) : callers[c].pc = "done" /\ ~callers[c].out.ok
  /\ \E c \in Joined(2) : callers[c].pc = "done" /\ callers[c].out.ok
                            /\ callers[c].out.desc.wsdl = resolvedWsdl
  /\ resolvedWsdl # NULL /\ resolving = 0

\* some resolve() call has succeeded
SomeResolveSucceeded ==
  \E c \in CallerIds : callers[c].pc = "done" /\ callers[c].kind = "resolve"
                         /\ callers[c].out.ok

\* C3 (as claimed): once a resolve() has succeeded, for every descriptor
\* the upstream can return, every later resolve() returns the same
\* wsdl/endpoint/version without invoking the upstream again, and
\* isResolved(), getWsdl(), getEndpoint() and getVersion() never change.
C3_ResolvedIsPermanent ==
  [][ SomeResolveSucceeded =>
        /\ upstreamCalls' = upstreamCalls
        /\ isResolved' = isResolved
        /\ getWsdl' = getWsdl
        /\ getEndpoint' = getEndpoint
        /\ getVersion' = getVersion
        /\ \A c, c0 \in CallerIds :
             ( /\ callers'[c].pc = "done" /\ callers'[c].out.ok
               /\ callers[c0].pc = "done" /\ callers[c0].out.ok )
             => callers'[c].out.desc = callers[c0].out.desc
    ]_vars

\* C5: a provider with no static WSDL, no custom resolver and no usable
\* discovery configuration performs no upstream call, rejects every
\* resolve() with the configuration error (VALIDATION_ERROR 'Cannot resolve
\* WSDL', not a network error), stays unresolved, and its slot is occupied
\* only while the call that filled it has not yet settled.
C5_Unconfigured ==
  (provCfg.staticWsdl = NULL /\ ~Configured) =>
    /\ upstreamCalls = 0
    /\ \A p \in AttemptIds : promises[p].state # "pending"
    /\ resolvedWsdl = NULL /\ ~isResolved
    /\ \A c \in CallerIds :
         callers[c].pc = "done" =>
           /\ ~callers[c].out.ok
           /\ callers[c].out.err.code = "VALIDATION_ERROR"
           /\ callers[c].out.err.msg = "Cannot resolve WSDL"
           /\ callers[c].out.err.code # "NETWORK_ERROR"
    /\ (resolving # 0 => \E c \in CallerIds : callers[c].pc = "leader"
                                               /\ callers[c].p = resolving)

\* C5 witness: discovery configured without a supplier id; a call was
\* rejected and the slot is empty again
C5_Witness ==
  /\ provCfg.staticWsdl = NULL /\ ~provCfg.customResolver
  /\ provCfg.onesource /\ provCfg.supplierId = NULL /\ provCfg.serviceName # NULL
  /\ callers[1].pc = "done" /\ ~callers[1].out.ok
  /\ resolving = 0

\* ========================================================================
\* Properties of BaseService.ensureWsdlResolved (SpecService)
\* ========================================================================
\* the wsVersion injectAuth(data, this.version) puts in the auth header:
\* buildAuthHeader uses wsVersion || this.wsVersion
OperativeWsVersion == Or(svcVersion, authWsVersion)

\* C4 (as claimed): for a service constructed with a wsdlProvider, once
\* ensureWsdlResolved() has completed with a descriptor that carries a
\* WSDL and a version, the service's version (cache key, wsVersion of the auth header)
\* is the descriptor's version if no version option was given, and the
\* pinned version otherwise.
C4_VersionPropagates ==
  \A c \in CallerIds :
    ( /\ svcOpts.wsdlProvider
      /\ callers[c].kind = "ensure" /\ callers[c].pc = "done" /\ callers[c].out.ok
      /\ callers[c].out.desc.wsdl # NULL
      /\ callers[c].out.desc.version # NULL )
    => IF svcOpts.version = NULL
         THEN svcVersion = callers[c].out.desc.version
              /\ OperativeWsVersion = callers[c].out.desc.version
         ELSE svcVersion = svcOpts.version

\* ========================================================================
\* Properties of BaseService.call (SpecCall)
\* ========================================================================
\* the object that holds the auth fields in request data: the object
\* itself, or the first element when the payload was an array
AuthCarrier(requestData) ==
  IF requestData.t = "arr" THEN requestData.items[1] ELSE requestData

\* C6: for every payload, also one that has the keys wsVersion, id or
\* password, the request data that injectAuth produces and call() hands to
\* the SOAP client carries the auth object's id and password and the
\* service's wsVersion: payload fields never override the auth fields.
C6_AuthFieldsWin ==
  call.requestData # JUndef =>
    /\ Get(AuthCarrier(call.requestData), K_id) = Lit(authCreds.id)
    /\ Get(AuthCarrier(call.requestData), K_wsVersion) = Lit(OperativeWsVersion)
    /\ (authCreds.includePassword /\ Truthy(authCreds.password)
          => Get(AuthCarrier(call.requestData), K_password) = Lit(authCreds.password))

\* the children of the Body element of an envelope document
BodyChildren(doc) == doc.root.kids[1].kids

IsFaultElement(e) == stripPrefix(e.name) = FaultElement(<<>>).name

\* the failure payload is an envelope whose Body contains a Fault
HasFault(doc) ==
  /\ doc.kind = "xml"
  /\ doc # PlainDoc
  /\ \E i \in 1..Len(BodyChildren(doc)) : IsFaultElement(BodyChildren(doc)[i])

\* C7: when the transport fails and the failure payload is a SOAP envelope
\* whose Body contains a Fault, the error raised by SoapClient.call carries
\* the fault's code and fault string, and the error surfaced by
\* BaseService.call carries the fault string, not the generic
\* transport-failure message.
C7_FaultSurfaces ==
  (call.pc = "done" /\ call.reply.kind = "http" /\ HasFault(call.reply.doc)) =>
    /\ call.soapOut.threw
    /\ call.soapOut.what.code = JStr(FaultCodeText)
    /\ call.soapOut.what.message = JStr(FaultStringText)
    /\ call.out.threw
    /\ call.out.what.message = JStr(FaultStringText)

\* the children of Body that are no Fault
NonFaultChildren(doc) == SelectSeq(BodyChildren(doc), LAMBDA e : ~IsFaultElement(e))

\* the normalized value of element e, as it appears under its parent
ValueOf(e) == NormalizeEntry(ParseElement(e, TRUE))

\* what extracting the body of envelope doc has to give: the value of the
\* only non-fault child, else the whole body
ExpectedBody(doc) ==
  IF Len(NonFaultChildren(doc)) = 1 THEN ValueOf(NonFaultChildren(doc)[1])
  ELSE ValueOf(doc.root.kids[1])

\* C8: for every response envelope (prefix soap:, soapenv:, SOAP-ENV: or
\* none) whose Body holds exactly one non-fault child, both
\* XmlConverter.extractSoapBody on the parsed envelope and SoapClient.call
\* return that child's value; with zero or several non-fault children
\* they return the whole body.
C8_BodyExtracted ==
  (call.pc = "done" /\ call.reply.kind = "ok" /\ call.reply.doc.kind = "xml"
     /\ call.reply.doc # PlainDoc /\ ~call.includeRaw) =>
    /\ XmlConverter_extractSoapBody(xmlToJson(call.reply.doc, TRUE).v)
         = Returns(ExpectedBody(call.reply.doc))
    /\ call.soapOut = Returns(ExpectedBody(call.reply.doc))

\* the registered validator rejected the response of the finished call()
ValidatorRejected ==
  /\ call.pc = "done"
  /\ call.reply.kind = "ok"
  /\ ~call.soapOut.threw
  /\ call.operation \in ValidatedOperations
  /\ ResponseValidator(call.operation, call.soapOut.v).threw

\* C9: when the operation's registered response validator rejects the
\* response, call() rejects with a Validation error (code VALIDATION_ERROR)
\* that names the operation and the service.
C9_ValidationErrorSurfaces ==
  ValidatorRejected =>
    /\ call.out.threw
    /\ call.out.what.code = Lit("VALIDATION_ERROR")
    /\ call.out.what.operation = call.operation
    /\ call.out.what.service = serviceName

\* C10: a timeout imposed by the transport surfaces from SoapClient.call
\* and from BaseService.call as a Timeout error (code TIMEOUT_ERROR).
C10_TimeoutIsDistinct ==
  (call.pc = "done" /\ call.reply.kind = "timeout") =>
    /\ call.soapOut.threw
    /\ call.soapOut.what.code = Lit("TIMEOUT_ERROR")
    /\ call.out.threw
    /\ call.out.what.code = Lit("TIMEOUT_ERROR")


\* ========================================================================
\* Properties of the cached BaseService.call (SpecCache)
\* ========================================================================
\* the current call() has returned or thrown
CachedCallDone == ccall.pc = "done"

\* what the same call() settles with on a service without a cache, given
\* the same outcome of SoapClient.call
UncachedOutcome == CallAfterClient(ccall.soapOut, ccall.operation)

\* C11: cache errors are a miss.  When cache.get, cache.delete or cache.set
\* threw during a call(), or the string cache.get returned could not be
\* parsed, the call() performed the transport call and settled exactly as
\* it does without a cache: with the validated result, or with the error
\* of the transport or of validation; no error of the cache reaches the
\* caller.
C11_CacheErrorsAreMisses ==
  (CachedCallDone /\ ccall.faults # {}) =>
     /\ ccall.posted
     /\ ~ccall.hit
     /\ ccall.out = UncachedOutcome

\* an expired entry whose delete threw, and then a set that threw: the
\* call() still returned the validated result
C11_Witness ==
  /\ CachedCallDone
  /\ ccall.faults = {"delete", "set"}
  /\ ~ccall.out.threw
  /\ ccall.out = UncachedOutcome


\* the key of the current call(), and the entry its lookup found
CurrentKey == getCacheKey(ccall.operation, ccall.data)
FoundEntry == ccall.found.t = "json"
FoundAge == ccall.at - Get(ccall.found.v, <<"t", "i", "m", "e", "s", "t", "a", "m", "p">>).n
FoundData == Get(ccall.found.v, <<"d", "a", "t", "a">>)

\* the current call() made a lookup, it is over, and the collaborator
\* answered it without an error
LookedUp ==
  /\ cacheOn /\ ~ccall.noCache
  /\ ccall.pc \in {"posted", "setting", "done"}
  /\ ccall.faults \cap {"get", "parse", "delete"} = {}

\* a step removes an entry only in the lookup that found it expired
RemovesOnlyExpired ==
  \A e \in cacheStore :
    (\A f \in cacheStore' : f.key # e.key) =>
       /\ ccall.pc = "deleting"
       /\ e.key = CurrentKey
       /\ e.value = ccall.found
       /\ FoundEntry /\ FoundAge > cacheTTL

\* the lookups, as a state predicate
LookupIsFresh ==
  LookedUp =>
    /\ ccall.hit <=> (FoundEntry /\ FoundAge <= cacheTTL)
    /\ ccall.hit => ccall.out = Returns(FoundData)
    /\ (FoundEntry /\ FoundAge > cacheTTL /\ ccall.pc = "posted") => Stored(CurrentKey) = JUndef

\* C12: lazy eviction.  A lookup whose collaborator calls completed returns
\* the stored payload exactly when there is an entry for the key and
\* now - timestamp <= cacheTTL; an entry older than cacheTTL is gone from
\* the cache when that lookup reports its miss; and no step removes an
\* entry except the lookup that found it expired.
C12_LazyEviction == []LookupIsFresh /\ [][RemovesOnlyExpired]_vars

\* a lookup found an entry older than cacheTTL that an earlier call()
\* stored, deleted it and reported a miss
C12_Witness ==
  /\ LookedUp
  /\ ccall.pc = "posted"
  /\ FoundEntry /\ FoundAge > cacheTTL
  /\ Stored(CurrentKey) = JUndef
  /\ ~ccall.hit


\* ========================================================================
\* Properties of OneSourceClient (SpecDiscovery)
\* ========================================================================
\* the current read has returned or thrown; it passed its argument checks
ReadDone == osCall.pc = "done"
ReadChecked == osCall.pc # "idle" /\ ~ArgumentError(osCall.req).threw
ReadKey == KeyOf(osCall.req.op, osCall.req.supplierId, osCall.req.service, osCall.req.version)
CachedReads == {"getSuppliers", "getSupplier", "getSupplierEndpoints", "getServiceEndpoint"}
\* the reads that have a cache key of their own, or filter such a read
KeyedReads == CachedReads \cup {"searchSuppliers"}

\* an entry for key that was stored at most cacheTTL ago
StoredWithinTTL(key) == \E e \in osStore : e.key = key /\ now - e.timestamp <= osTTL

\* C13 as stated: a read is answered without an upstream request exactly
\* when an entry for its own key was stored at most cacheTTL ago (and not
\* cleared since).
C13_OwnKeyOnly ==
  (ReadDone /\ ReadChecked /\ osCall.req.op \in CachedReads) =>
     (osCall.requests = 0 <=> osCall.found)

\* the steps of a read, told by what they do to osCall
BeginStep == osCall'.n = osCall.n + 1
FetchedStep == osCall.pc = "fetching" /\ osCall'.pc = "done" /\ osCall'.reply.kind = "ok"

\* the cache serves and changes as stated
CacheDiscipline ==
  /\ (BeginStep /\ osCall'.req.op \in KeyedReads) =>
       LET req == osCall'.req
           own == StoredWithinTTL(KeyOf(req.op, req.supplierId, req.service, req.version))
           list == StoredWithinTTL(KeyOf("getSupplierEndpoints", req.supplierId, req.service, req.version))
       IN IF ArgumentError(req).threw THEN ~osCall'.found /\ ~osCall'.viaList
          ELSE /\ osCall'.found <=> own
               /\ osCall'.viaList <=> (~own /\ req.op = "getServiceEndpoint" /\ list)
               /\ osCall'.requests = 0 <=> (osCall'.found \/ osCall'.viaList)
  \* an entry is written only with the clock's time, by a fetch that
  \* succeeded or by getServiceEndpoint selecting from the cached list
  /\ \A e \in osStore' :
       \/ \E f \in osStore : f.key = e.key /\ f.timestamp = e.timestamp
       \/ /\ e.timestamp = now
          /\ FetchedStep \/ (BeginStep /\ osCall'.viaList)
  \* a fetch that succeeded leaves the slot of its key freshly stamped
  /\ FetchedStep =>
       \E e \in osStore' :
         /\ e.key = KeyOf(FetchOf(osCall.req.op), osCall.req.supplierId, osCall.req.service,
                          osCall.req.version)
         /\ e.timestamp = now
  \* at most one entry per key
  /\ \A e, f \in osStore' : e.key = f.key => e = f

\* C13 (amended): cached reads.  A read of getSuppliers, getSupplier or
\* getSupplierEndpoints is answered from the cache, without an upstream
\* request, exactly when an entry for its key was stored at most cacheTTL
\* ago and not cleared since; getServiceEndpoint also when its own key
\* misses and the endpoints entry of the supplier is that fresh.  In every
\* other case the read fetches upstream, and a fetch that succeeds
\* overwrites the slot with the current time.  A hit returns the stored
\* data.
C13_CachedReads ==
  /\ [](ReadDone /\ ReadChecked /\ osCall.req.op \in KeyedReads =>
          /\ osCall.requests = 0 <=> (osCall.found \/ osCall.viaList)
          /\ osCall.viaList => osCall.req.op = "getServiceEndpoint"
          /\ (osCall.found /\ osCall.req.op \in CachedReads) => osCall.out = Returns(osCall.data))
  /\ [][CacheDiscipline]_vars

\* a second read answered from an entry that is exactly cacheTTL old
C13_Witness ==
  /\ ReadDone /\ osCall.found /\ osCall.requests = 0 /\ osCall.n = 2
  /\ osCall.req.op \in CachedReads
  /\ \E e \in osStore : e.key = ReadKey /\ now - e.timestamp = osTTL /\ osCall.out = Returns(e.data)

\* the versions of the descriptors the current getServiceEndpoint selected
\* from
ListedVersions ==
  LET list == Get(osCall.data, osCall.req.service.s).items
  IN [i \in 1..Len(list) |-> Get(list[i], <<"v", "e", "r", "s", "i", "o", "n">>)]

\* the current read is a getServiceEndpoint with a version that is not
\* among the descriptors of the service
VersionUnavailable ==
  /\ ReadDone /\ ReadChecked
  /\ osCall.req.op = "getServiceEndpoint"
  /\ JTruthy(osCall.req.version)
  /\ ~osCall.found /\ osCall.data # JUndef
  /\ ListedVersions # <<>>
  /\ \A i \in 1..Len(ListedVersions) : ListedVersions[i] # osCall.req.version

\* C15: an explicit version that is not available.  getServiceEndpoint
\* rejects with a ValidationError (code VALIDATION_ERROR) whose details
\* list the available versions, exactly and in list order; not with a
\* network error; and the cache holds nothing under the key of the read.
C15_UnavailableVersion ==
  VersionUnavailable =>
    /\ osCall.out.threw
    /\ osCall.out.what.cls = "ValidationError"
    /\ osCall.out.what.code = "VALIDATION_ERROR"
    /\ "availableVersions" \in DOMAIN osCall.out.what.details
    /\ osCall.out.what.details.availableVersions = ListedVersions
    /\ osCall.out.what.details.requestedVersion = osCall.req.version
    /\ \A e \in osStore : e.key # ReadKey

\* version 2.0.0 asked of a fetched list that has 1.9 and 1.10.0
C15_Witness ==
  /\ VersionUnavailable
  /\ osCall.requests = 1
  /\ osCall.req.version = JStr(<<"2", ".", "0", ".", "0">>)
  /\ ListedVersions = <<JStr(<<"1", ".", "9">>), JStr(<<"1", ".", "1", "0", ".", "0">>)>>
  /\ osCall.out.threw

\* C16: error kinds.  A read whose upstream request was answered with
\* HTTP 404 rejects with the not-found error; with another status, with a
\* NetworkError whose details carry that status; and a request that got no
\* response rejects with a NetworkError.
C16_ErrorKinds ==
  (ReadDone /\ ReadChecked /\ osCall.requests = 1 /\ osCall.reply.kind # "ok") =>
    /\ osCall.out.threw
    /\ IF osCall.reply.kind = "network" THEN osCall.out.what.cls = "NetworkError"
       ELSE IF osCall.reply.status = 404
         THEN /\ osCall.out.what.cls = "ValidationError"
              /\ osCall.out.what.details.status = 404
       ELSE /\ osCall.out.what.cls = "NetworkError"
            /\ "status" \in DOMAIN osCall.out.what.details
            /\ osCall.out.what.details.status = osCall.reply.status

\* q occurs in the field k of supplier s, whatever the case of the letters
ContainsIgnoringCase(s, k, q) ==
  Get(s, k).t = "str" /\ includes(toLowerCase(Get(s, k).s), toLowerCase(q))

\* the text of a query
QueryText(query) == IF query.t = "str" THEN query.s ELSE Get(query, <<"n", "a", "m", "e">>).s

\* C17: search.  searchSuppliers(q) makes no request but the fetch of the
\* supplier list (none when the list is cached) and returns, in list
\* order, the suppliers whose name, id or ASI number contains q, whatever
\* the case of the letters.
C17_SearchFilters ==
  (ReadDone /\ osCall.req.op = "searchSuppliers" /\ ~osCall.out.threw) =>
    /\ osCall.requests <= 1
    /\ osCall.requests = 0 <=> osCall.found
    /\ osCall.out.v =
         JArr(SelectSeq(osCall.data.items,
                LAMBDA s : \/ ContainsIgnoringCase(s, <<"n", "a", "m", "e">>, QueryText(osCall.req.query))
                           \/ ContainsIgnoringCase(s, <<"i", "d">>, QueryText(osCall.req.query))
                           \/ ContainsIgnoringCase(s, <<"a", "s", "i", "N", "u", "m", "b", "e", "r">>, QueryText(osCall.req.query))))


\* ========================================================================
\* Properties of the functions (SpecFunctions)
\* ========================================================================
\* what a version text means: its components as integers, a missing third
\* component being zero
VersionNumbers(v) ==
  CASE v = <<"1", ".", "2">> -> <<1, 2, 0>>
    [] v = <<"1", ".", "2", ".", "0">> -> <<1, 2, 0>>
    [] v = <<"1", ".", "2", ".", "1">> -> <<1, 2, 1>>
    [] v = <<"1", ".", "9">> -> <<1, 9, 0>>
    [] v = <<"1", ".", "1", "0", ".", "0">> -> <<1, 10, 0>>
    [] v = <<"2", ".", "0", ".", "0">> -> <<2, 0, 0>>

\* a is not greater than b, comparing the components from the left
NotGreater(a, b) ==
  \/ a[1] < b[1]
  \/ a[1] = b[1] /\ a[2] < b[2]
  \/ a[1] = b[1] /\ a[2] = b[2] /\ a[3] <= b[3]

\* C14: latest version.  getServiceEndpoint without a version returns a
\* descriptor of the list whose version no other descriptor of the list
\* exceeds, components compared as integers from the left and a missing
\* component counting as zero, in whatever order the list arrives.
C14_LatestVersion ==
  (fnIn.fn = "getServiceEndpoint" /\ fnOut # Pending) =>
    /\ ~fnOut.threw
    /\ \E i \in 1..Len(fnIn.list) :
         /\ Get(fnOut.v, <<"v", "e", "r", "s", "i", "o", "n">>) = Get(fnIn.list[i], <<"W", "s", "V", "e", "r", "s", "i", "o", "n">>)
         /\ Get(fnOut.v, <<"w", "s", "d", "l">>) = Get(fnIn.list[i], <<"S", "e", "r", "v", "i", "c", "e", "U", "r", "l">>)
    /\ \A i \in 1..Len(fnIn.list) :
         NotGreater(VersionNumbers(Get(fnIn.list[i], <<"W", "s", "V", "e", "r", "s", "i", "o", "n">>).s),
                    VersionNumbers(Get(fnOut.v, <<"v", "e", "r", "s", "i", "o", "n">>).s))

\* the list 1.9, 1.10.0, 1.2.1, where the greatest version is neither the
\* first, nor the last, nor the greatest as text
C14_Witness ==
  /\ fnIn.fn = "getServiceEndpoint"
  /\ fnIn.list = <<RawService(<<"I", "N", "V">>, <<"1", ".", "9">>), RawService(<<"I", "N", "V">>, <<"1", ".", "1", "0", ".", "0">>), RawService(<<"I", "N", "V">>, <<"1", ".", "2", ".", "1">>)>>
  /\ fnOut = Returns(normalizeEndpoints(JArr(<<RawService(<<"I", "N", "V">>, <<"1", ".", "1", "0", ".", "0">>)>>)).kv[1].v.items[1])


\* the identifier of the credentials: id, or username when there is no id
Identifier == JOr(fnIn.id, fnIn.username)

\* C18: credentials.  Constructing the auth object succeeds exactly when an
\* identifier is present and the identifier and the secret are at most 64
\* characters long, whether the identifier comes as id or as username.
C18_CredentialBounds ==
  (fnIn.fn = "PromoStandardsAuth" /\ fnOut # Pending) =>
    (~fnOut.threw <=>
       /\ JTruthy(Identifier)
       /\ Len(Identifier.s) <= MaxCredentialLength
       /\ (fnIn.password.t = "str" => Len(fnIn.password.s) <= MaxCredentialLength))

\* C19: unsupported versions.  A service constructed with a version outside
\* supportedVersions is rejected by the constructor with a ValidationError
\* that lists the supported versions, on a static WSDL and on a
\* wsdlProvider alike, so that no service exists that would put such a
\* version into a request.
C19_UnsupportedVersionRejected ==
  (fnIn.fn = "BaseService" /\ fnOut # Pending) =>
    /\ (Truthy(fnIn.options.version) /\ fnIn.options.version \notin supportedVersions) =>
         /\ fnOut.threw
         /\ fnOut.what.cls = "ValidationError"
         /\ "supportedVersions" \in DOMAIN fnOut.what.details
              => fnOut.what.details.supportedVersions = supportedVersions
    /\ ~fnOut.threw => fnOut.v.wsVersion \in supportedVersions

\* what a leaf text is coerced to
Coerced(text) ==
  CASE text = <<>> -> JNull
    [] text = <<"t", "r", "u", "e">> -> JBool(TRUE)
    [] text = <<"f", "a", "l", "s", "e">> -> JBool(FALSE)
    [] text = <<"4", "2">> -> JNum(42)
    [] text = <<"-", "7">> -> JNum(0 - 7)
    [] OTHER -> JStr(text)

\* C20: leaf coercion.  In the parsed document every leaf holds the
\* coerced value of its text, at depth one and two, and also when it is
\* one of the repeated siblings that are collected into a sequence.
C20_EveryLeafCoerced ==
  (fnIn.fn = "xmlToJson" /\ fnOut # Pending) =>
    /\ ~fnOut.threw
    /\ LET r == Get(fnOut.v, <<"r">>)
           parent == IF fnIn.shape \in {"single", "repeated"} THEN r ELSE Get(r, <<"g">>)
       IN IF fnIn.shape \in {"single", "nested"}
            THEN /\ Get(parent, <<"v">>) = Coerced(fnIn.texts[1])
                 /\ Get(parent, <<"w">>) = Coerced(fnIn.texts[2])
            ELSE Get(parent, <<"v">>) = JArr(<<Coerced(fnIn.texts[1]), Coerced(fnIn.texts[2])>>)


\* ------------------------------------------------------------------------
\* Properties of the codec (SpecFunctions)
\* ------------------------------------------------------------------------
\* obj[k] for the key that equals k when case is ignored
GetIgnoringCase(obj, k) ==
  IF obj.t = "obj" /\ \E i \in 1..Len(obj.kv) : toLowerCase(obj.kv[i].k) = toLowerCase(k)
    THEN obj.kv[CHOOSE i \in 1..Len(obj.kv) : toLowerCase(obj.kv[i].k) = toLowerCase(k)].v
    ELSE JUndef

\* every boolean, number and null leaf of v is found in w at the same
\* position
RECURSIVE LeavesPreserved(_, _)
LeavesPreserved(v, w) ==
  CASE v.t \in {"bool", "num", "null"} -> w = v
    [] v.t = "obj" -> \A i \in 1..Len(v.kv) : LeavesPreserved(v.kv[i].v, GetIgnoringCase(w, v.kv[i].k))
    [] v.t = "arr" -> \A i \in 1..Len(v.items) :
                        LeavesPreserved(v.items[i],
                                        IF w.t = "arr" /\ i <= Len(w.items) THEN w.items[i] ELSE JUndef)
    [] OTHER -> TRUE

\* C21: round trip.  For a value v produced by parse, parse(build(v)),
\* below the root element that build adds, holds every boolean, number and
\* null leaf of v at the same position.
C21_RoundTripPreservesLeaves ==
  (fnIn.fn = "roundTrip" /\ fnOut # Pending) =>
    LeavesPreserved(fnOut.v.v, Get(fnOut.v.again, <<"r", "e", "q", "u", "e", "s", "t">>))


\* v without its null and undefined values: entries and items, at every
\* depth
RECURSIVE Pruned(_)
Pruned(v) ==
  IF v.t = "obj"
    THEN LET kept == SelectSeq(v.kv, LAMBDA e : e.v.t \notin {"null", "undef"})
         IN JObj([i \in 1..Len(kept) |-> [k |-> kept[i].k, v |-> Pruned(kept[i].v)]])
  ELSE IF v.t = "arr"
    THEN LET kept == SelectSeq(v.items, LAMBDA x : x.t \notin {"null", "undef"})
         IN JArr([i \in 1..Len(kept) |-> Pruned(kept[i])])
  ELSE v

\* C22: nulls are omitted.  What jsonToXml and buildRequestXml write for a
\* tree is what they write for the tree without its null and undefined
\* values: no element stands for such a value, be it an entry of a mapping
\* or an item of a sequence, at any depth.
C22_NullsOmitted ==
  (fnIn.fn \in {"jsonToXml", "buildRequestXml"} /\ fnOut # Pending) =>
    fnOut.v = Built(fnIn.fn, Pruned(fnIn.json))


\* the Body of the document has a child whose name contains "fault",
\* whatever the case
BodyHasFaultChild(doc) ==
  \E i \in 1..Len(doc.root.kids[1].kids) :
    includes(toLowerCase(doc.root.kids[1].kids[i].name), <<"f", "a", "u", "l", "t">>)

\* C23: fault extraction.  extractSoapFault of a parsed response is a fault
\* object exactly when the Body has a child whose name contains "fault" in
\* any case, under every prefix and key casing; otherwise it is null
\* (undefined is taken as null here).
C23_FaultIffFaultChild ==
  (fnIn.fn = "extractSoapFault" /\ fnOut # Pending) =>
    IF BodyHasFaultChild(fnIn.doc) THEN fnOut.v.t = "obj" ELSE fnOut.v.t \in {"null", "undef"}


\* ------------------------------------------------------------------------
\* Properties of the transport and the cache in BaseService.call (SpecCache)
\* ------------------------------------------------------------------------
\* a step after which call() awaits the transport
TransportStarts == ccall'.pc = "posted" /\ ccall' # ccall

\* the transport is started by a new call, or by a call that has not
\* used it yet
OneRequestPerCall ==
  TransportStarts => (ccall'.n = ccall.n + 1 \/ ~ccall.posted)

\* whatever a step puts into the cache is, under the key of the call, the
\* result of client.call as validateResponse returned it
WritesOnlyValidated ==
  \A e \in cacheStore' \ cacheStore :
    /\ ccall.posted
    /\ ~ccall.soapOut.threw
    /\ ~validateResponse(ccall.operation, ccall.soapOut.v).threw
    /\ e = [key |-> getCacheKey(ccall.operation, ccall.data),
            value |-> cacheData(validateResponse(ccall.operation, ccall.soapOut.v).v,
                                ccall.stamp)]

\* a call answered from the cache has not used the transport, and a call
\* that failed is not about to write
HitWithoutTransport ==
  /\ ccall.hit => (~ccall.posted /\ ccall.soapOut = Pending)
  /\ ccall.pc = "setting" => (ccall.posted /\ ~CallAfterClient(ccall.soapOut, ccall.operation).threw)

\* C24: one request, validated writes.  Every execution of call() uses the
\* transport at most once and not at all on a cache hit, and the cache is
\* written only with a response that validateResponse has returned: a
\* transport failure and a response the validator rejects are never
\* stored.
C24_OneRequestValidatedWrites ==
  []HitWithoutTransport /\ [][OneRequestPerCall /\ WritesOnlyValidated]_vars

\* C24 witness: a call went to the transport once, its response passed
\* validateResponse and is in the cache, and the next call is a hit
C24_Witness ==
  /\ ccall.pc = "done" /\ ccall.hit /\ ~ccall.posted
  /\ ccall.n > 1
  /\ \E e \in cacheStore : e.key = CurrentKey /\ e.value # CorruptData


\* ------------------------------------------------------------------------
\* Properties of the request element name (SpecFunctions)
\* ------------------------------------------------------------------------
\* what the WSDL of the client declares for the operation: the clients of
\* the model declare getInventoryLevels only
Declared == IF fnIn.operation = <<"g", "e", "t", "I", "n", "v", "e", "n", "t", "o", "r", "y", "L", "e", "v", "e", "l", "s">> THEN fnIn.inspected.declares ELSE JNull

\* C25: element name.  The request element is named options.elementName
\* when that is given; otherwise as the part of the operation's input
\* message in the parsed WSDL says; otherwise PascalCase(operation) +
\* "Request".  No client, no definition and a definition of an unexpected
\* shape raise nothing and lead to the last.
C25_ElementNameOrder ==
  (fnIn.fn = "requestElementName" /\ fnOut # Pending) =>
    /\ ~fnOut.threw
    /\ fnOut.v = IF fnIn.elementName.t = "str" /\ fnIn.elementName.s # <<>> THEN fnIn.elementName
                 ELSE IF Declared # JNull THEN Declared
                 ELSE JStr(<<UpperOf(fnIn.operation[1])>> \o Tail(fnIn.operation) \o <<"R", "e", "q", "u", "e", "s", "t">>)

\* C25 witness: without options.elementName, the inspection of a WSDL of
\* an unexpected shape failed and the name is the conventional one
C25_Witness ==
  /\ fnIn.fn = "requestElementName" /\ fnOut # Pending
  /\ ~JTruthy(fnIn.elementName)
  /\ JTruthy(fnIn.inspected.client) /\ JTruthy(Get(fnIn.inspected.client, <<"w", "s", "d", "l">>))
  /\ InspectWsdl(fnIn.inspected.client, fnIn.operation).threw
  /\ fnOut = Returns(JStr(<<"G", "e", "t", "I", "n", "v", "e", "n", "t", "o", "r", "y", "L", "e", "v", "e", "l", "s", "R", "e", "q", "u", "e", "s", "t">>))


\* ------------------------------------------------------------------------
\* Properties of PromoStandardsClient (SpecClient)
\* ------------------------------------------------------------------------
\* the last call gave a username and a password and returned a service
ReturnedWithCredentials ==
  /\ clCall.n > 0 /\ ~clCall.out.threw
  /\ JTruthy(clCall.options.username) /\ JTruthy(clCall.options.password)

\* C26: per-call credentials.  A service returned by
\* client.inventory(wsdl, {username, password}) authenticates with the
\* username and password of that call, in every sequence of calls on one
\* client.
C26_PerCallCredentials ==
  ReturnedWithCredentials =>
    clCall.out.v = [id |-> clCall.options.username, password |-> clCall.options.password]


\* ------------------------------------------------------------------------
\* Properties of concurrent initialization (SpecInit)
\* ------------------------------------------------------------------------
\* the invocations that await soap.createClientAsync
Creating == {c \in DOMAIN inCallers : inCallers[c].pc = "creating"}

\* C27: one initialization.  For one service the WSDL is fetched, by
\* soap.createClientAsync, and the SoapClient made at most once, however
\* the invocations of call() and initialize() overlap: never are two
\* fetches that have not failed counted, nor two SoapClient objects, on a
\* static and on a lazily resolved service.
C27_InitializedOnce ==
  /\ Cardinality(Creating) + Cardinality(inReady) <= 1
  /\ inClient <= 1


\* ------------------------------------------------------------------------
\* Properties of the auth object (SpecAuth)
\* ------------------------------------------------------------------------
\* the stored identifier is a non-empty text of at most 64 characters and
\* the stored secret, when there is one, has at most 64
StoredWithinBounds ==
  authState # JNull =>
    /\ authState.id.t = "str" /\ Len(authState.id.s) \in 1..MaxCredentialLength
    /\ (authState.password.t = "str" => Len(authState.password.s) <= MaxCredentialLength)

\* a step in which updateCredentials throws leaves the object as it was
RejectedUpdateKeeps ==
  (authCall'.n = authCall.n + 1 /\ authCall'.out.threw) => authState' = authState

\* C28: stored credentials.  After every sequence of a construction and
\* updateCredentials calls the stored identifier is non-empty and at most
\* 64 characters long and the stored secret at most 64; a rejected
\* updateCredentials changes neither id nor password nor wsVersion.
C28_StoredCredentialsBounded == []StoredWithinBounds /\ [][RejectedUpdateKeeps]_vars


\* ------------------------------------------------------------------------
\* The endpoints entry of the discovery cache (SpecDiscovery)
\* ------------------------------------------------------------------------
\* the endpoints of a supplier as getSupplierEndpoints stores them when
\* they are fetched
AsFetched == {normalizeEndpoints(d) : d \in EndpointsData}

\* getSupplierEndpoints answered from the cache returns the descriptors of
\* every service in the order in which they were fetched
ReturnedInFetchOrder ==
  (osCall.pc = "done" /\ osCall.req.op = "getSupplierEndpoints" /\ osCall.found)
    => osCall.out.v \in AsFetched

\* a step that completes getServiceEndpoint or getSupportedServices on the
\* endpoints it got from getSupplierEndpoints leaves the entry under
\* endpoints:{supplierId} holding those endpoints as it got them
EndpointsEntryKept ==
  (/\ osCall' # osCall
   /\ osCall'.pc = "done"
   /\ osCall'.req.op \in {"getServiceEndpoint", "getSupportedServices"}
   /\ ~osCall'.found
   /\ osCall'.data # JUndef)
    => \A e \in osStore' :
         e.key = KeyOf("getSupplierEndpoints", osCall'.req.supplierId, JUndef, JUndef)
           => e.data = osCall'.data

\* C29: the endpoints entry is left alone.  getServiceEndpoint and
\* getSupportedServices do not change the data cached under
\* endpoints:{supplierId}: a getSupplierEndpoints answered from the cache
\* afterwards returns the descriptors of each service in the order in which
\* they were fetched.
C29_EndpointsEntryUnchanged == []ReturnedInFetchOrder /\ [][EndpointsEntryKept]_vars


\* ------------------------------------------------------------------------
\* Properties of compareVersions as an ordering (SpecFunctions)
\* ------------------------------------------------------------------------
Sign(n) == IF n < 0 THEN -1 ELSE IF n > 0 THEN 1 ELSE 0

\* compare(a, b) and compare(b, a) have opposite signs
OppositeSigns == Sign(fnOut.v.ab) = -Sign(fnOut.v.ba)

\* a not after b and b not after c make a not after c
Transitive == (fnOut.v.ab <= 0 /\ fnOut.v.bc <= 0) => fnOut.v.ac <= 0

\* the latest version is the same for the list and for the reversed list:
\* both missing, or both there and comparing equal
LatestWhateverOrder ==
  /\ fnOut.v.latest = JUndef <=> fnOut.v.latestReversed = JUndef
  /\ compareVersions(fnOut.v.latest, fnOut.v.latestReversed) = 0

\* C30: consistent ordering.  Over the versions a descriptor can carry, a
\* missing version included, compareVersions(a, b) and compareVersions(b, a)
\* have opposite signs and the relation is transitive, so that the version
\* chosen as latest does not depend on the order of the list.
C30_ConsistentOrdering ==
  (fnIn.fn = "compareVersions" /\ fnOut # Pending) =>
    /\ OppositeSigns
    /\ Transitive
    /\ LatestWhateverOrder

====
